---- MODULE Spec2Model ----
(***************************************************************************)
(* Model of the ingestion-and-indexing pipeline of accesibility-ai:        *)
(*   load_datasets.py       CSV files -> SQLite tables + data_sources      *)
(*   build_vector_store.py  SQLite tables -> documents -> Chroma upserts   *)
(* Text is a sequence of one-character strings, so that formatting,        *)
(* normalisation and identifier derivation are computed, not assumed.      *)
(***************************************************************************)
EXTENDS Integers, Sequences, FiniteSets, TLC

\* ------------------------------------------------------------------------
\* Characters and text helpers
\* ------------------------------------------------------------------------

\* Python None / SQL NULL: a one-element sequence that is no text.
None == <<"None">>

DigitChars == {"0", "1", "2", "3", "4", "5", "6", "7", "8", "9"}

LowerLetters ==
  <<"a", "b", "c", "d", "e", "f", "g", "h", "i", "j", "k", "l", "m",
    "n", "o", "p", "q", "r", "s", "t", "u", "v", "w", "x", "y", "z">>

UpperLetters ==
  <<"A", "B", "C", "D", "E", "F", "G", "H", "I", "J", "K", "L", "M",
    "N", "O", "P", "Q", "R", "S", "T", "U", "V", "W", "X", "Y", "Z">>

LowerChars == {LowerLetters[i] : i \in 1..Len(LowerLetters)}

UpperChars == {UpperLetters[i] : i \in 1..Len(UpperLetters)}

SpaceChars == {" ", "\t"}

\* str.lower() on one character (the accented capital of the model included)
LowerOf(c) ==
  IF c \in UpperChars
  THEN LowerLetters[CHOOSE i \in 1..Len(UpperLetters) : UpperLetters[i] = c]
  ELSE IF c = "É" THEN "é"
  ELSE c

DigitValue(c) ==
  CASE c = "0" -> 0 [] c = "1" -> 1 [] c = "2" -> 2 [] c = "3" -> 3
    [] c = "4" -> 4 [] c = "5" -> 5 [] c = "6" -> 6 [] c = "7" -> 7
    [] c = "8" -> 8 [] c = "9" -> 9

DigitOf(n) ==
  CASE n = 0 -> "0" [] n = 1 -> "1" [] n = 2 -> "2" [] n = 3 -> "3"
    [] n = 4 -> "4" [] n = 5 -> "5" [] n = 6 -> "6" [] n = 7 -> "7"
    [] n = 8 -> "8" [] n = 9 -> "9"

Lower(s) == [i \in 1..Len(s) |-> LowerOf(s[i])]

RECURSIVE LStrip(_, _)
LStrip(s, chars) ==
  IF s # <<>> /\ Head(s) \in chars THEN LStrip(Tail(s), chars) ELSE s

RECURSIVE RStrip(_, _)
RStrip(s, chars) ==
  IF s # <<>> /\ s[Len(s)] \in chars
  THEN RStrip(SubSeq(s, 1, Len(s) - 1), chars) ELSE s

\* Variant: str.lstrip(chars)
StripLeft(s, chars) == LStrip(s, chars)

\* str.strip(chars)
Strip(s, chars) == RStrip(LStrip(s, chars), chars)

\* str.endswith(suffix)
EndsWith(s, suffix) ==
  /\ Len(suffix) <= Len(s)
  /\ SubSeq(s, Len(s) - Len(suffix) + 1, Len(s)) = suffix

\* sep.join(parts)
RECURSIVE Join(_, _)
Join(parts, sep) ==
  IF parts = <<>> THEN <<>>
  ELSE IF Len(parts) = 1 THEN parts[1]
  ELSE parts[1] \o sep \o Join(Tail(parts), sep)

\* str(n) for an integer n
RECURSIVE NatText(_)
NatText(n) ==
  IF n < 10 THEN <<DigitOf(n)>> ELSE NatText(n \div 10) \o <<DigitOf(n % 10)>>

IntText(n) == IF n < 0 THEN <<"-">> \o NatText(0 - n) ELSE NatText(n)

\* int(digits) for a non-empty run of ASCII digits
RECURSIVE DigitsValue(_)
DigitsValue(ds) ==
  IF ds = <<>> THEN 0
  ELSE 10 * DigitsValue(SubSeq(ds, 1, Len(ds) - 1)) + DigitValue(ds[Len(ds)])

AllDigits(s) == s # <<>> /\ \A i \in 1..Len(s) : s[i] \in DigitChars

\* ------------------------------------------------------------------------
\* load_datasets.py: pure functions
\* ------------------------------------------------------------------------

BATCH_SIZE == 500

\* unicodedata.normalize("NFKD", c).encode("ascii", "ignore") per character:
\* an accented letter keeps its base letter, any other non-ASCII character
\* is dropped, ASCII is kept.
AsciiFold(c) ==
  CASE c = "é" -> <<"e">>
    [] c = "É" -> <<"E">>
    [] c = "ß" -> <<>>
    [] OTHER -> <<c>>

RECURSIVE NFKDAscii(_)
NFKDAscii(s) ==
  IF s = <<>> THEN <<>> ELSE AsciiFold(Head(s)) \o NFKDAscii(Tail(s))

IdentChars == DigitChars \cup LowerChars

RECURSIVE DropInvalid(_)
DropInvalid(s) ==
  IF s # <<>> /\ Head(s) \notin IdentChars THEN DropInvalid(Tail(s)) ELSE s

\* re.sub(r"[^0-9a-z]+", "_", s): every maximal run of other characters
\* becomes one underscore.
RECURSIVE SubInvalidRuns(_)
SubInvalidRuns(s) ==
  IF s = <<>> THEN <<>>
  ELSE IF Head(s) \in IdentChars THEN <<Head(s)>> \o SubInvalidRuns(Tail(s))
  ELSE <<"_">> \o SubInvalidRuns(DropInvalid(Tail(s)))

\* re.sub(r"_+", "_", s)
RECURSIVE SubUnderscoreRuns(_)
SubUnderscoreRuns(s) ==
  IF s = <<>> THEN <<>>
  ELSE IF Head(s) = "_" THEN <<"_">> \o SubUnderscoreRuns(LStrip(Tail(s), {"_"}))
  ELSE <<Head(s)>> \o SubUnderscoreRuns(Tail(s))

\* Variant: every identifier is given the prefix t_.
normalize_identifier_prefixed(name) ==
  LET folded   == NFKDAscii(name)
      lowered  == Lower(Strip(folded, SpaceChars))
      replaced == SubInvalidRuns(lowered)
      trimmed  == Strip(SubUnderscoreRuns(replaced), {"_"})
      nonempty == IF trimmed = <<>> THEN <<"f", "i", "e", "l", "d">> ELSE trimmed
  IN  <<"t", "_">> \o (IF nonempty[1] \in DigitChars THEN <<"_">> \o nonempty ELSE nonempty)

normalize_identifier(name) ==
  LET folded   == NFKDAscii(name)
      lowered  == Lower(Strip(folded, SpaceChars))
      replaced == SubInvalidRuns(lowered)
      trimmed  == Strip(SubUnderscoreRuns(replaced), {"_"})
      nonempty == IF trimmed = <<>> THEN <<"f", "i", "e", "l", "d">> ELSE trimmed
  IN  IF nonempty[1] \in DigitChars THEN <<"_">> \o nonempty ELSE nonempty

NullTokens ==
  { <<"n", "a">>, <<"n", "/", "a">>, <<"n", "u", "l", "l">>, <<"n", "o", "n", "e">> }

\* Variant: digits after a zero are not taken for an integer.
IsIntTextWithoutLeadingZero(s) ==
  LET digits == IF s # <<>> /\ Head(s) = "-" THEN Tail(s) ELSE s
  IN  AllDigits(digits) /\ (Len(digits) > 1 => Head(digits) # "0")

\* re.fullmatch(r"-?\d+", s)
IsIntText(s) ==
  IF s # <<>> /\ Head(s) = "-" THEN AllDigits(Tail(s)) ELSE AllDigits(s)

\* re.fullmatch(r"-?\d+\.\d+", s)
IsFloatText(s) ==
  LET body == IF s # <<>> /\ Head(s) = "-" THEN Tail(s) ELSE s
  IN  \E k \in 2..(Len(body) - 1) :
        /\ body[k] = "."
        /\ AllDigits(SubSeq(body, 1, k - 1))
        /\ AllDigits(SubSeq(body, k + 1, Len(body)))

\* int(s) for s matching the integer pattern
ParseInt(s) ==
  IF Head(s) = "-" THEN 0 - DigitsValue(Tail(s)) ELSE DigitsValue(s)

\* repr(float(s)) for s matching the floating-point pattern (short decimals):
\* the integer part loses leading zeros, the fraction loses trailing zeros,
\* one digit is kept on each side of the point.
FloatRepr(s) ==
  LET neg  == Head(s) = "-"
      body == IF neg THEN Tail(s) ELSE s
      dot  == CHOOSE k \in 1..Len(body) : body[k] = "."
      ip0  == LStrip(SubSeq(body, 1, dot - 1), {"0"})
      fp0  == RStrip(SubSeq(body, dot + 1, Len(body)), {"0"})
      ip   == IF ip0 = <<>> THEN <<"0">> ELSE ip0
      fp   == IF fp0 = <<>> THEN <<"0">> ELSE fp0
  IN  (IF neg THEN <<"-">> ELSE <<>>) \o ip \o <<".">> \o fp

\* A Python value returned by coerce_value: kind, integer value, text.
PyNone     == [kind |-> "none",  int |-> 0, text |-> <<>>]
PyInt(n)   == [kind |-> "int",   int |-> n, text |-> <<>>]
PyFloat(r) == [kind |-> "float", int |-> 0, text |-> r]
PyStr(s)   == [kind |-> "str",   int |-> 0, text |-> s]

\* csv.reader never yields None cells, so value is always text here.
coerce_value(value) ==
  LET trimmed == Strip(value, SpaceChars)
  IN  IF trimmed = <<>> \/ Lower(trimmed) \in NullTokens THEN PyNone
      ELSE IF IsIntText(trimmed) THEN PyInt(ParseInt(trimmed))
      ELSE IF IsFloatText(trimmed) THEN PyFloat(FloatRepr(trimmed))
      ELSE PyStr(trimmed)

\* What SQLite keeps in a TEXT-affinity column for a bound Python value:
\* NULL for None, the decimal text for numbers, the text itself for str.
StoredCell(v) ==
  CASE v.kind = "none"  -> None
    [] v.kind = "int"   -> IntText(v.int)
    [] v.kind = "float" -> v.text
    [] v.kind = "str"   -> v.text

\* ------------------------------------------------------------------------
\* Text order (code point order of the characters the model uses), as used
\* by sorted() over paths and by ORDER BY name.
\* ------------------------------------------------------------------------

CodeOrder ==
  <<"\t", "\n", " ", "-", ".", "/">>
    \o <<"0", "1", "2", "3", "4", "5", "6", "7", "8", "9", ":">>
    \o UpperLetters \o <<"_">> \o LowerLetters \o <<"É", "ß", "é">>

Code(c) == CHOOSE i \in 1..Len(CodeOrder) : CodeOrder[i] = c

RECURSIVE TextLess(_, _)
TextLess(a, b) ==
  IF b = <<>> THEN FALSE
  ELSE IF a = <<>> THEN TRUE
  ELSE IF Head(a) = Head(b) THEN TextLess(Tail(a), Tail(b))
  ELSE Code(Head(a)) < Code(Head(b))

\* sorted(S) for a set of texts
RECURSIVE SortTexts(_)
SortTexts(S) ==
  IF S = {} THEN <<>>
  ELSE LET m == CHOOSE x \in S : \A y \in S \ {x} : TextLess(x, y)
       IN  <<m>> \o SortTexts(S \ {m})

\* ------------------------------------------------------------------------
\* The relational store (SQLite file) as one connection sees it
\* ------------------------------------------------------------------------

DataSources == <<"d", "a", "t", "a", "_", "s", "o", "u", "r", "c", "e", "s">>

SqlitePrefix == <<"s", "q", "l", "i", "t", "e", "_">>

StartsWith(s, prefix) ==
  Len(prefix) <= Len(s) /\ SubSeq(s, 1, Len(prefix)) = prefix

\* tables: name -> [columns, rows]; rows[i] is the row with rowid i.
\* ledger: the rows of data_sources while it has the schema of
\* create_metadata_table; hasLedger is false before its creation and after a
\* CSV load replaced it by a data table (then kept under tables).
NoDatabase ==
  [exists |-> FALSE, tables |-> <<>>, ledger |-> <<>>, hasLedger |-> FALSE]

TableNames(d) == DOMAIN d.tables

DropKey(f, k) == [x \in (DOMAIN f) \ {k} |-> f[x]]

PutKey(f, k, v) == [x \in (DOMAIN f) \cup {k} |-> IF x = k THEN v ELSE f[x]]

\* The connection during one run of main(): durable is what the file holds
\* (what a later connection reads), work is what this connection sees, intxn
\* tells whether the sqlite3 module has opened its implicit transaction.
\* sqlite3 opens it before INSERT/UPDATE/DELETE only; DROP and CREATE outside
\* of it are committed at once.
Connect(d) ==
  [durable |-> [d EXCEPT !.exists = TRUE],
   work    |-> [d EXCEPT !.exists = TRUE],
   intxn   |-> FALSE]

Ddl(conn, newWork) ==
  [conn EXCEPT !.work = newWork,
               !.durable = IF conn.intxn THEN @ ELSE newWork]

Dml(conn, newWork) ==
  [conn EXCEPT !.work = newWork, !.intxn = TRUE]

Commit(conn) ==
  [conn EXCEPT !.durable = conn.work, !.intxn = FALSE]

\* CREATE TABLE IF NOT EXISTS data_sources (...)
create_metadata_table(conn) ==
  IF conn.work.hasLedger \/ DataSources \in TableNames(conn.work)
  THEN conn
  ELSE Ddl(conn, [conn.work EXCEPT !.hasLedger = TRUE, !.ledger = <<>>])

\* DROP TABLE IF EXISTS "table_name"
DropTable(conn, table_name) ==
  IF table_name = DataSources /\ conn.work.hasLedger
  THEN Ddl(conn, [conn.work EXCEPT !.hasLedger = FALSE, !.ledger = <<>>])
  ELSE IF table_name \in TableNames(conn.work)
  THEN Ddl(conn, [conn.work EXCEPT !.tables = DropKey(@, table_name)])
  ELSE conn

\* CREATE TABLE "table_name" (...) is refused for a table that exists, no
\* column, a repeated column name and a reserved table name.
CanCreateTable(conn, table_name, columns) ==
  /\ table_name \notin TableNames(conn.work)
  /\ ~(table_name = DataSources /\ conn.work.hasLedger)
  /\ columns # <<>>
  /\ \A i, j \in 1..Len(columns) : columns[i] = columns[j] => i = j
  /\ ~StartsWith(table_name, SqlitePrefix)

CreateTable(conn, table_name, columns) ==
  Ddl(conn, [conn.work EXCEPT
               !.tables = PutKey(@, table_name, [columns |-> columns, rows |-> <<>>])])

\* Variant: every batch is committed as soon as it is inserted.
InsertRowsAndCommit(conn, table_name, batch) ==
  Commit(Dml(conn, [conn.work EXCEPT !.tables[table_name].rows = @ \o batch]))

\* executemany(insert_sql, batch)
InsertRows(conn, table_name, batch) ==
  Dml(conn, [conn.work EXCEPT !.tables[table_name].rows = @ \o batch])

\* ------------------------------------------------------------------------
\* load_datasets.py: insert_metadata, ingest_file, main
\* A dataset directory is a function from the stems of its *.csv files to
\* their contents; a content is the sequence of rows csv.reader yields, each
\* row a sequence of cell texts (no row at all for an empty file).
\* ------------------------------------------------------------------------

CsvSuffix == <<".", "c", "s", "v">>

\* sorted(datasets_dir.glob("*.csv")), as a sequence of stems
gather_csv_files(dir) ==
  LET paths == SortTexts({stem \o CsvSuffix : stem \in DOMAIN dir})
  IN  [i \in 1..Len(paths) |-> SubSeq(paths[i], 1, Len(paths[i]) - Len(CsvSuffix))]

\* Variant: a plain INSERT into a table without key.
InsertRecord(ledger, rec) == Append(ledger, rec)

\* INSERT ... ON CONFLICT(table_name) DO UPDATE SET ...: the record with this
\* table_name is overwritten in place, otherwise the record is appended.
UpsertRecord(ledger, rec) ==
  IF \E i \in 1..Len(ledger) : ledger[i].table_name = rec.table_name
  THEN [i \in 1..Len(ledger) |->
          IF ledger[i].table_name = rec.table_name THEN rec ELSE ledger[i]]
  ELSE Append(ledger, rec)

\* Variant: the header row is counted as a row.
MetadataRecordCountingHeader(table_name, source_file, row_count, original_columns, normalized_columns, now) ==
  [table_name         |-> table_name,
   source_file        |-> source_file,
   row_count          |-> row_count + 1,
   original_columns   |-> original_columns,
   normalized_columns |-> normalized_columns,
   ingested_at        |-> now]

\* The parameters bound to the statement; the two json.dumps texts are kept
\* as the lists they encode, ingested_at is the time of the run.
MetadataRecord(table_name, source_file, row_count, original_columns, normalized_columns, now) ==
  [table_name         |-> table_name,
   source_file        |-> source_file,
   row_count          |-> row_count,
   original_columns   |-> original_columns,
   normalized_columns |-> normalized_columns,
   ingested_at        |-> now]

\* The statement fails when data_sources is not the table that
\* create_metadata_table makes (no such columns, no key to conflict on).
insert_metadata(conn, table_name, source_file, row_count, original_columns, normalized_columns, now) ==
  IF ~conn.work.hasLedger
  THEN [conn |-> conn, failed |-> TRUE]
  ELSE [conn |-> Dml(conn, [conn.work EXCEPT !.ledger = UpsertRecord(@,
                   MetadataRecord(table_name, source_file, row_count,
                                  original_columns, normalized_columns, now))]),
        failed |-> FALSE]

\* Variant: only a row without cells is blank.
IsBlankRowWithoutCells(row) ==
  row = <<>>

\* not row or all(value is None or not value.strip() for value in row)
IsBlankRow(row) ==
  \A k \in 1..Len(row) : Strip(row[k], SpaceChars) = <<>>

\* Variant: the batch is inserted once it is over the batch size.
RowStepFlushingLate(lines, i, table_name, acc) ==
  LET row == lines[i] IN
  IF acc.failed \/ IsBlankRow(row) THEN acc
  ELSE IF Len(row) # Len(lines[1]) THEN [acc EXCEPT !.failed = TRUE]
  ELSE
    LET values == [k \in 1..Len(row) |-> StoredCell(coerce_value(row[k]))]
        batch  == Append(acc.batch, values)
        full   == Len(batch) > BATCH_SIZE
    IN  [acc EXCEPT
           !.row_count = @ + 1,
           !.conn  = IF full THEN InsertRows(@, table_name, batch) ELSE @,
           !.calls = IF full THEN Append(@, Len(batch)) ELSE @,
           !.batch = IF full THEN <<>> ELSE batch]

\* One turn of the loop over the data rows of ingest_file, for row i of
\* the content. acc: conn, row_count, batch, calls (the sizes of the
\* executemany batches), failed (the ValueError of a row length mismatch was
\* raised, which ends the loop).
RowStep(lines, i, table_name, acc) ==
  LET row == lines[i] IN
  IF acc.failed \/ IsBlankRow(row) THEN acc
  ELSE IF Len(row) # Len(lines[1]) THEN [acc EXCEPT !.failed = TRUE]
  ELSE
    LET values == [k \in 1..Len(row) |-> StoredCell(coerce_value(row[k]))]
        batch  == Append(acc.batch, values)
        full   == Len(batch) >= BATCH_SIZE
    IN  [acc EXCEPT
           !.row_count = @ + 1,
           !.conn  = IF full THEN InsertRows(@, table_name, batch) ELSE @,
           !.calls = IF full THEN Append(@, Len(batch)) ELSE @,
           !.batch = IF full THEN <<>> ELSE batch]

\* for row in reader: the turns for rows lo..hi in order, none after the
\* error (the range is halved only to keep the evaluation shallow).
RECURSIVE RowLoop(_, _, _, _, _)
RowLoop(lines, lo, hi, table_name, acc) ==
  IF lo > hi THEN acc
  ELSE IF lo = hi THEN RowStep(lines, lo, table_name, acc)
  ELSE LET mid  == (lo + hi) \div 2
           left == RowLoop(lines, lo, mid, table_name, acc)
       IN  IF left.failed THEN left ELSE RowLoop(lines, mid + 1, hi, table_name, left)

\* What ingest_file leaves when it raises: status is the error ("empty",
\* "shape" with the row number of the message in row, "sql" for a statement
\* SQLite refuses), calls the sizes of the executemany batches so far.
Raised(conn, status, row, calls) ==
  [conn |-> conn, status |-> status, row |-> row, row_count |-> 0, calls |-> calls]

\* After the loop over the rows: the ValueError of the mismatch, or the last
\* partial batch and the record of the file.
AfterRows(looped, stem, table_name, raw_headers, normalized_headers, now) ==
  IF looped.failed
  THEN Raised(looped.conn, "shape", looped.row_count + 2, looped.calls)
  ELSE
    LET rest    == looped.batch # <<>>
        flushed == IF rest THEN InsertRows(looped.conn, table_name, looped.batch)
                   ELSE looped.conn
        calls   == IF rest THEN Append(looped.calls, Len(looped.batch))
                   ELSE looped.calls
        meta    == insert_metadata(flushed, table_name, stem \o CsvSuffix,
                     looped.row_count, raw_headers, normalized_headers, now)
    IN
    IF meta.failed THEN Raised(meta.conn, "sql", 0, calls)
    ELSE [conn |-> meta.conn, status |-> "ok", row |-> 0,
          row_count |-> looped.row_count, calls |-> calls]

\* CREATE TABLE on the connection after the DROP, then the loop over the
\* rows and what follows it.
CreateAndFill(dropped, stem, lines, table_name, normalized_headers, now) ==
  IF ~CanCreateTable(dropped, table_name, normalized_headers)
  THEN Raised(dropped, "sql", 0, <<>>)
  ELSE AfterRows(RowLoop(lines, 2, Len(lines), table_name,
                   [conn      |-> CreateTable(dropped, table_name, normalized_headers),
                    row_count |-> 0, batch |-> <<>>, calls |-> <<>>, failed |-> FALSE]),
                 stem, table_name, lines[1], normalized_headers, now)

\* Variant: the table is dropped before the header is read.
ingest_file_dropping_first(conn, stem, lines, table_name, now) ==
  IF lines = <<>> THEN Raised(DropTable(conn, table_name), "empty", 0, <<>>)
  ELSE CreateAndFill(DropTable(conn, table_name), stem, lines, table_name,
                     [k \in 1..Len(lines[1]) |-> normalize_identifier(lines[1][k])], now)

\* ingest_file: status is "ok" or the error raised.
ingest_file(conn, stem, lines, table_name, now) ==
  IF lines = <<>> THEN Raised(conn, "empty", 0, <<>>)
  ELSE CreateAndFill(DropTable(conn, table_name), stem, lines, table_name,
                     [k \in 1..Len(lines[1]) |-> normalize_identifier(lines[1][k])], now)

\* What main knows after ingest_file returned or raised r for the file stem.
FileDone(acc, stem, table_name, r) ==
  [conn       |-> r.conn,
   status     |-> r.status,
   file       |-> stem,
   row        |-> r.row,
   total_rows |-> acc.total_rows + r.row_count,
   inserts    |-> Append(acc.inserts, [table |-> table_name, calls |-> r.calls])]

\* One turn of the loop of main, table_name being
\* normalize_identifier(csv_file.stem).
FileTurn(acc, stem, lines, table_name, now) ==
  FileDone(acc, stem, table_name, ingest_file(acc.conn, stem, lines, table_name, now))

\* The loop of main over the sorted files, from file i on; it stops at the
\* first file whose ingest_file raises.
RECURSIVE FileLoop(_, _, _, _, _)
FileLoop(dir, files, i, now, acc) ==
  IF i > Len(files) \/ acc.status # "ok" THEN acc
  ELSE FileLoop(dir, files, i + 1, now,
         FileTurn(acc, files[i], dir[files[i]], normalize_identifier(files[i]), now))

\* The end of main: commit after the loop; after an error the connection is
\* closed without commit, which rolls the open transaction back.
LoadEnd(run) ==
  [db         |-> (IF run.status = "ok" THEN Commit(run.conn) ELSE run.conn).durable,
   status     |-> run.status,
   file       |-> run.file,
   row        |-> run.row,
   total_rows |-> run.total_rows,
   inserts    |-> run.inserts]

\* main: the file the run leaves behind (db) and what the run reports.
\* Without a CSV file it exits before connecting.
LoadMain(d, dir, now) ==
  LET csv_files == gather_csv_files(dir) IN
  IF csv_files = <<>>
  THEN [db |-> d, status |-> "nofiles", file |-> <<>>, row |-> 0,
        total_rows |-> 0, inserts |-> <<>>]
  ELSE LoadEnd(FileLoop(dir, csv_files, 1, now,
                 [conn |-> create_metadata_table(Connect(d)), status |-> "ok",
                  file |-> <<>>, row |-> 0, total_rows |-> 0, inserts |-> <<>>]))

\* ------------------------------------------------------------------------
\* build_vector_store.py: columns, text blocks, documents
\* ------------------------------------------------------------------------

VECTOR_BATCH_SIZE == 128

En == <<"e", "n">>

Fr == <<"f", "r">>

Unknown == <<"u", "n", "k", "n", "o", "w", "n">>

\* The dict in its iteration order.
LANG_SUFFIX_MAP ==
  << [lang |-> En, suffixes |-> { <<"_", "e", "n">>,
                                  <<"_", "e", "n", "g", "l", "i", "s", "h">> }],
     [lang |-> Fr, suffixes |-> { <<"_", "f", "r">>,
                                  <<"_", "f", "r", "e", "n", "c", "h">> }] >>

InternalRowId ==
  <<"i", "n", "t", "e", "r", "n", "a", "l", "_", "r", "o", "w", "_", "i", "d">>

\* value -> str(value).strip() or None, for None or text
clean_text(value) ==
  IF value = None THEN None
  ELSE LET text == Strip(value, SpaceChars)
       IN  IF text = <<>> THEN None ELSE text

\* name NOT LIKE 'sqlite_%': in LIKE the underscore stands for any one
\* character, so every name of "sqlite" plus at least one character is left out.
LikeSqlite(name) ==
  Len(name) >= 7 /\ Lower(SubSeq(name, 1, 6)) = <<"s", "q", "l", "i", "t", "e">>

StoredTableNames(d) == TableNames(d) \cup (IF d.hasLedger THEN {DataSources} ELSE {})

\* Variant: the query has no ORDER BY and returns the names last first.
get_all_tables_unordered(d) ==
  LET names == SortTexts({name \in StoredTableNames(d) : ~LikeSqlite(name) /\ name # DataSources})
  IN  [k \in 1..Len(names) |-> names[Len(names) + 1 - k]]

\* Variant: the rows of the query are returned as they are.
get_all_tables_unfiltered(d) ==
  SortTexts({name \in StoredTableNames(d) : ~LikeSqlite(name)})

get_all_tables(d) ==
  SortTexts({name \in StoredTableNames(d) : ~LikeSqlite(name) /\ name # DataSources})

get_columns(d, table) == d.tables[table].columns

\* Index of the first language one of whose suffixes ends the column, or 0.
RECURSIVE FirstLanguage(_, _)
FirstLanguage(column, i) ==
  IF i > Len(LANG_SUFFIX_MAP) THEN 0
  ELSE IF \E suffix \in LANG_SUFFIX_MAP[i].suffixes : EndsWith(column, suffix) THEN i
  ELSE FirstLanguage(column, i + 1)

\* Variant: a column is put in front of its group.
RECURSIVE PartitionLoopPrepend(_, _, _)
PartitionLoopPrepend(columns, i, acc) ==
  IF i > Len(columns) THEN acc
  ELSE LET l == FirstLanguage(columns[i], 1)
       IN  PartitionLoopPrepend(columns, i + 1,
             IF l = 0 THEN [acc EXCEPT !.shared = <<columns[i]>> \o @]
             ELSE [acc EXCEPT !.lang_columns[l] = <<columns[i]>> \o @])

\* The loop of partition_language_columns over the columns from column i on;
\* acc.lang_columns[l] belongs to LANG_SUFFIX_MAP[l].
RECURSIVE PartitionLoop(_, _, _)
PartitionLoop(columns, i, acc) ==
  IF i > Len(columns) THEN acc
  ELSE LET l == FirstLanguage(columns[i], 1)
       IN  PartitionLoop(columns, i + 1,
             IF l = 0 THEN [acc EXCEPT !.shared = Append(@, columns[i])]
             ELSE [acc EXCEPT !.lang_columns[l] = Append(@, columns[i])])

partition_language_columns(columns) ==
  PartitionLoop(columns, 1,
    [lang_columns |-> [l \in 1..Len(LANG_SUFFIX_MAP) |-> <<>>], shared |-> <<>>])

IsIdColumn(column) == EndsWith(column, <<"i", "d">>)

candidate_identifier_columns(columns) == SelectSeq(columns, IsIdColumn)

\* row_dict = {key: row[key] for key in row.keys()} for the row with this
\* rowid: the rowid under internal_row_id (its str() taken here), then the
\* columns; sqlite3.Row answers a name by its first column of that name.
RowDict(columns, rowid, row) ==
  [key \in {InternalRowId} \cup {columns[k] : k \in 1..Len(columns)} |->
     IF key = InternalRowId THEN IntText(rowid)
     ELSE row[CHOOSE k \in 1..Len(columns) : columns[k] = key]]

RECURSIVE TextParts(_, _, _)
TextParts(row_dict, fields, i) ==
  IF i > Len(fields) THEN <<>>
  ELSE LET field == fields[i]
           value == IF field \in DOMAIN row_dict THEN clean_text(row_dict[field]) ELSE None
       IN  (IF value # None THEN << field \o <<":", " ">> \o value >> ELSE <<>>)
             \o TextParts(row_dict, fields, i + 1)

build_text(row_dict, fields) ==
  LET parts == TextParts(row_dict, fields, 1)
  IN  IF parts = <<>> THEN None ELSE Join(parts, <<"\n">>)

\* f"{table_name}:{row_dict['internal_row_id']}"
RowIdentifier(table_name, row_dict) ==
  table_name \o <<":">> \o row_dict[InternalRowId]

\* Variant: the language is left out of the id.
DocumentIdOfRow(row_identifier, language) ==
  row_identifier

\* f"{row_identifier}:{language}"
DocumentId(row_identifier, language) ==
  row_identifier \o <<":">> \o language

\* Variant: every identifier column gives its value.
RECURSIVE IdentifierValuesOfAll(_, _, _)
IdentifierValuesOfAll(row_dict, identifier_columns, i) ==
  IF i > Len(identifier_columns) THEN <<>>
  ELSE LET column == identifier_columns[i]
           value  == IF column \in DOMAIN row_dict THEN clean_text(row_dict[column]) ELSE None
       IN  (IF value # None THEN << <<column, value>> >> ELSE <<>>)
             \o IdentifierValuesOfAll(row_dict, identifier_columns, i + 1)

\* The identifier values of add_document, as (column, value) pairs in the
\* order the dict receives them.
RECURSIVE IdentifierValues(_, _, _)
IdentifierValues(row_dict, identifier_columns, i) ==
  IF i > Len(identifier_columns) \/ i > 3 THEN <<>>
  ELSE LET column == identifier_columns[i]
           value  == IF column \in DOMAIN row_dict THEN clean_text(row_dict[column]) ELSE None
       IN  (IF value # None THEN << <<column, value>> >> ELSE <<>>)
             \o IdentifierValues(row_dict, identifier_columns, i + 1)

\* add_document: the entry appended to docs, ids and metadatas.
add_document(table_name, columns, identifier_columns, row_dict, language, content) ==
  [id       |-> DocumentId(RowIdentifier(table_name, row_dict), language),
   document |-> content,
   metadata |-> [table_name     |-> table_name,
                 language       |-> language,
                 row_identifier |-> RowIdentifier(table_name, row_dict),
                 column_count   |-> IntText(Len(columns)),
                 identifiers    |-> IdentifierValues(row_dict, identifier_columns, 1)]]

\* Variant: a document is made for a language only when its own text exists.
LanguageEmitsOwnTextOnly(lang_text, shared_text) ==
  lang_text # None

\* The test of lines 168-172: a document is made for a language when its
\* text or the shared text exists.
LanguageEmits(lang_text, shared_text) ==
  ~(lang_text = None /\ shared_text = None)

\* "\n\n".join(part for part in [lang_text, shared_text] if part)
DocumentContent(lang_text, shared_text) ==
  Join(SelectSeq(<<lang_text, shared_text>>, LAMBDA part : part # None),
       <<"\n", "\n">>)

\* ------------------------------------------------------------------------
\* The Chroma collection: its entries in insertion order
\* ------------------------------------------------------------------------

NoCollection == [exists |-> FALSE, entries |-> <<>>]

\* collection.upsert of one entry: the entry with this id is replaced,
\* otherwise the entry is added.
UpsertEntry(entries, doc) ==
  IF \E i \in 1..Len(entries) : entries[i].id = doc.id
  THEN [i \in 1..Len(entries) |-> IF entries[i].id = doc.id THEN doc ELSE entries[i]]
  ELSE Append(entries, doc)

\* The entries of batch[lo..hi] in order (the range is halved, and the left
\* half looked at first, only to keep the evaluation shallow).
RECURSIVE UpsertEntries(_, _, _, _)
UpsertEntries(entries, batch, lo, hi) ==
  IF lo > hi THEN entries
  ELSE IF lo = hi THEN UpsertEntry(entries, batch[lo])
  ELSE LET mid  == (lo + hi) \div 2
           left == UpsertEntries(entries, batch, lo, mid)
       IN  IF left = <<>> THEN left ELSE UpsertEntries(left, batch, mid + 1, hi)

\* collection.upsert(ids=ids, documents=docs, metadatas=metadatas)
CollectionUpsert(coll, batch) ==
  [coll EXCEPT !.entries = UpsertEntries(@, batch, 1, Len(batch))]

\* ------------------------------------------------------------------------
\* build_vector_store.py: ingest_table, ingest_specific_tables, main
\* acc: buffer (the parallel lists docs, ids, metadatas as one list of
\* entries), added, language_added, collection, upserts (one batch per
\* collection.upsert call of the run).
\* ------------------------------------------------------------------------

\* Variant: the buffer is flushed once it is over the batch size.
FlushDueOverSize(buffer) == Len(buffer) > VECTOR_BATCH_SIZE

\* len(ids) >= VECTOR_BATCH_SIZE
FlushDue(buffer) == Len(buffer) >= VECTOR_BATCH_SIZE

\* Variant: the batch is added to the collection, not upserted.
FlushByAdd(acc) ==
  [acc EXCEPT !.collection.entries = @ \o acc.buffer,
              !.upserts            = Append(@, acc.buffer),
              !.buffer             = <<>>]

\* collection.upsert(...); docs.clear(); ids.clear(); metadatas.clear()
Flush(acc) ==
  [acc EXCEPT !.collection = CollectionUpsert(@, acc.buffer),
              !.upserts    = Append(@, acc.buffer),
              !.buffer     = <<>>]

\* The statements after add_document: count it, flush a full buffer.
Added(acc, doc) ==
  LET put == [acc EXCEPT !.buffer = Append(@, doc), !.added = @ + 1]
  IN  IF FlushDue(put.buffer) THEN Flush(put) ELSE put

\* for language, lang_fields in lang_columns.items(): ... from language l on
RECURSIVE LanguageLoop(_, _, _, _, _, _, _, _)
LanguageLoop(table_name, columns, identifier_columns, lang_columns, row_dict, shared_text, l, acc) ==
  IF l > Len(LANG_SUFFIX_MAP) THEN acc
  ELSE
    LET lang_text == build_text(row_dict, lang_columns[l])
        language  == LANG_SUFFIX_MAP[l].lang
        doc       == add_document(table_name, columns, identifier_columns, row_dict,
                                  language, DocumentContent(lang_text, shared_text))
    IN  LanguageLoop(table_name, columns, identifier_columns, lang_columns,
                     row_dict, shared_text, l + 1,
          IF LanguageEmits(lang_text, shared_text)
          THEN [Added(acc, doc) EXCEPT !.language_added = TRUE]
          ELSE acc)

\* One turn of "for row in cursor", for the row with rowid i.
RowDocuments(table_name, columns, identifier_columns, partition, rows, i, acc) ==
  LET row_dict    == RowDict(columns, i, rows[i])
      shared_text == build_text(row_dict, partition.shared)
      languages   == LanguageLoop(table_name, columns, identifier_columns,
                       partition.lang_columns, row_dict, shared_text, 1,
                       [acc EXCEPT !.language_added = FALSE])
      fallback    == add_document(table_name, columns, identifier_columns, row_dict,
                                  Unknown, shared_text)
  IN  IF ~languages.language_added /\ shared_text # None
      THEN Added(languages, fallback)
      ELSE languages

\* for row in cursor: the turns for the rowids lo..hi in order (the range is
\* halved, and the left half looked at first, only to keep the evaluation
\* shallow).
RECURSIVE CursorLoop(_, _, _, _, _, _, _, _)
CursorLoop(table_name, columns, identifier_columns, partition, rows, lo, hi, acc) ==
  IF lo > hi THEN acc
  ELSE IF lo = hi
  THEN RowDocuments(table_name, columns, identifier_columns, partition, rows, lo, acc)
  ELSE LET mid  == (lo + hi) \div 2
           left == CursorLoop(table_name, columns, identifier_columns, partition,
                              rows, lo, mid, acc)
       IN  IF left.added < 0 THEN left
           ELSE CursorLoop(table_name, columns, identifier_columns, partition,
                           rows, mid + 1, hi, left)

\* if ids: collection.upsert(...), after the loop over the rows
FinalFlush(looped) ==
  IF looped.buffer # <<>> THEN Flush(looped) ELSE looped

\* ingest_table: the collection after it, the upsert calls it made (appended
\* to upserts) and the count it returns (added).
ingest_table(d, coll, table_name, upserts) ==
  LET columns == get_columns(d, table_name)
  IN  FinalFlush(CursorLoop(table_name, columns,
                   candidate_identifier_columns(columns),
                   partition_language_columns(columns),
                   d.tables[table_name].rows, 1, Len(d.tables[table_name].rows),
                   [buffer |-> <<>>, added |-> 0, language_added |-> FALSE,
                    collection |-> coll, upserts |-> upserts]))

\* count = ingest_table(...); total_docs += count
TableDone(acc, r) ==
  [acc EXCEPT !.collection = r.collection,
              !.upserts    = r.upserts,
              !.counts     = Append(@, r.added),
              !.total_docs = @ + r.added]

RECURSIVE ingest_specific_tables(_, _, _, _)
ingest_specific_tables(d, tables, i, acc) ==
  IF i > Len(tables) THEN acc
  ELSE ingest_specific_tables(d, tables, i + 1,
         TableDone(acc, ingest_table(d, acc.collection, tables[i], acc.upserts)))

\* What main reports after the ingestion of tables.
IndexEnd(tables, run) ==
  [collection |-> run.collection, status |-> "ok", missing |-> <<>>,
   tables |-> tables, upserts |-> run.upserts, counts |-> run.counts,
   total_docs |-> run.total_docs]

\* Variant: only the first of the absent names is kept.
FirstMissingTable(requested, tables) ==
  LET absent == {requested[k] : k \in 1..Len(requested)} \ {tables[k] : k \in 1..Len(tables)}
  IN  IF absent = {} THEN {} ELSE {SortTexts(absent)[1]}

\* set(args.tables) - set(tables)
MissingTables(requested, tables) ==
  {requested[k] : k \in 1..Len(requested)} \ {tables[k] : k \in 1..Len(tables)}

\* Variant: the run stops after the collection was deleted.
SystemExitAfterDelete(coll, status, missing) ==
  [collection |-> NoCollection, status |-> status, missing |-> missing,
   tables |-> <<>>, upserts |-> <<>>, counts |-> <<>>, total_docs |-> 0]

\* raise SystemExit(...) of ensure_database and of the lookup of the
\* requested tables: the collection is as the run found it.
SystemExit(coll, status, missing) ==
  [collection |-> coll, status |-> status, missing |-> missing,
   tables |-> <<>>, upserts |-> <<>>, counts |-> <<>>, total_docs |-> 0]

\* main of build_vector_store.py. requested is args.tables (<<>> when the
\* option is absent or empty), reset is args.reset.
IndexMain(d, coll, requested, reset) ==
  IF ~d.exists THEN SystemExit(coll, "nodatabase", <<>>)
  ELSE
    LET available_tables == get_all_tables(d)
        wanted  == {requested[k] : k \in 1..Len(requested)}
        tables  == IF requested # <<>>
                   THEN SelectSeq(available_tables, LAMBDA table : table \in wanted)
                   ELSE available_tables
        missing == IF requested # <<>> THEN MissingTables(requested, tables) ELSE {}
    IN
    IF missing # {} THEN SystemExit(coll, "notfound", SortTexts(missing))
    ELSE IndexEnd(tables,
           ingest_specific_tables(d, tables, 1,
             [collection |-> [(IF reset THEN NoCollection ELSE coll) EXCEPT !.exists = TRUE],
              upserts |-> <<>>, counts |-> <<>>, total_docs |-> 0]))

\* ------------------------------------------------------------------------
\* Inputs of the runs
\* ------------------------------------------------------------------------

MaxRows == 2

MaxLoads == 2

MaxIndexRuns == 2

X == <<"x">>

NA == <<"N", "A">>

StemA == <<"A">>

StemB == <<"b">>

\* a.csv next to A.csv
StemSameTable == <<"a">>

TableA == <<"a">>

TableB == <<"b">>

\* Headers as the files spell them: t_en, t_fr, n after normalisation.
HeaderLang == << <<"T", " ", "E", "N">>, <<"t", "_", "f", "r">>, <<"N">> >>

\* id, d_english after normalisation.
HeaderId == << <<"I", "d">>, <<"d", "-", "e", "n", "g", "l", "i", "s", "h">> >>

\* Both cells normalise to n.
HeaderTwice == << <<"N">>, <<"n", " ">> >>

\* Every data row of three cells, each a value or a null token.
LangRows == {<<e, f, n>> : e \in {X, NA}, f \in {X, NA}, n \in {X, NA}}

RECURSIVE SeqsUpTo(_, _)
SeqsUpTo(S, n) ==
  IF n = 0 THEN {<<>>}
  ELSE LET shorter == SeqsUpTo(S, n - 1)
       IN  shorter \cup {Append(q, x) : q \in {r \in shorter : Len(r) = n - 1}, x \in S}

Repeat(row, n) == [i \in 1..n |-> row]

File(header, rows) == <<header>> \o rows

ContentB == File(HeaderId, << << <<"0", "7">>, <<" ", "y">> >>, << X, <<"1", ".", "5", "0">> >> >>)

WithB(dirA) == {dirA, [stem \in {StemA, StemB} |-> IF stem = StemA THEN dirA[StemA] ELSE ContentB]}

Dir(stem, content) == [s \in {stem} |-> content]

GoodRow1 == <<X, NA, <<"0", "7">> >>

GoodRow2 == <<NA, <<" ", "x", " ">>, X>>

BlankLine == <<>>

BlankCells == << <<>>, <<" ">>, <<>> >>

ShortRow == <<X, X>>

\* A blank row of more cells than the header.
BlankWide == << <<" ">>, <<>>, <<"\t">>, <<" ", " ">> >>

StemIds == <<"i", "d", "s">>

\* a_id, idx, bid, c_id, d_id, t_en after normalisation: four columns whose
\* name ends with id, one that holds id elsewhere.
HeaderIds ==
  << <<"A", " ", "I", "d">>, <<"i", "d", "x">>, <<"b", "i", "d">>,
     <<"c", "_", "i", "d">>, <<"d", "_", "i", "d">>, <<"t", "_", "e", "n">> >>

\* Rows with two of the first three identifiers, with all three and no
\* fourth, and with the fourth alone.
ContentIds ==
  File(HeaderIds,
    << << <<"1">>, X, NA, <<" ", "3">>, <<"4">>, X >>,
       << <<"1">>, X, <<"2">>, <<"0", "3">>, NA, X >>,
       << NA, X, NA, NA, <<"4">>, X >> >>)

\* Contents of A.csv for the load runs.
LoadContents ==
  { <<>>,
    File(HeaderLang, <<>>),
    File(HeaderLang, <<GoodRow1, GoodRow2>>),
    File(HeaderLang, <<GoodRow2>>),
    File(HeaderLang, <<GoodRow1, BlankLine, BlankCells, GoodRow2, BlankLine>>),
    File(HeaderLang, <<BlankWide, GoodRow1, BlankCells, GoodRow2, BlankWide>>),
    File(HeaderLang, <<GoodRow1, ShortRow, GoodRow2>>),
    File(HeaderLang, <<BlankLine, GoodRow1, ShortRow>>),
    File(HeaderTwice, << <<X, X>> >>) }

\* Contents of A.csv around the batch size: one column, BATCH_SIZE rows,
\* one more, and a row of two cells after a blank line behind a full batch.
BulkContents ==
  { File(<< <<"N">> >>, Repeat(<<X>>, BATCH_SIZE)),
    File(<< <<"N">> >>, Repeat(<<X>>, BATCH_SIZE + 1)),
    File(<< <<"N">> >>, Repeat(<<X>>, BATCH_SIZE) \o <<BlankLine, ShortRow>>) }

\* Contents of b.csv for the load runs.
LoadContentsB == {ContentB, File(HeaderId, << <<X>> >>)}

\* Contents of a.csv, a second file next to A.csv whose stem gives the
\* table name of A.csv.
LoadContentsSameTable == {File(HeaderLang, <<GoodRow2>>), <<>>}

LoadDirs ==
  LET onlyB == {Dir(StemB, c) : c \in LoadContentsB}
      onlyA == {Dir(StemA, c) : c \in LoadContents \cup BulkContents}
      both  == {[stem \in {StemA, StemB} |-> IF stem = StemA THEN a ELSE b] :
                  a \in LoadContents, b \in LoadContentsB}
      same  == {[stem \in {StemA, StemSameTable} |->
                   IF stem = StemA THEN File(HeaderLang, <<GoodRow1, GoodRow2>>) ELSE c] :
                  c \in LoadContentsSameTable}
  IN  {<<>>} \cup onlyA \cup onlyB \cup both \cup same \cup {Dir(DataSources, ContentB)}

\* Tables for the index runs: every table of at most MaxRows rows of
\* LangRows, and tables around the batch size whose rows give one document
\* (English text only) or two (shared text).
OneDocRow == <<X, NA, NA>>

TwoDocRow == <<NA, NA, X>>

BulkTables ==
  { Repeat(OneDocRow, VECTOR_BATCH_SIZE - 1),
    Repeat(OneDocRow, VECTOR_BATCH_SIZE + 2),
    Repeat(TwoDocRow, VECTOR_BATCH_SIZE \div 2),
    <<OneDocRow>> \o Repeat(TwoDocRow, VECTOR_BATCH_SIZE \div 2) }

\* The directory without a CSV file leaves no database behind, and
\* data_sources.csv leaves a data table under the name of the ledger.
IndexDirs ==
  {Dir(StemA, File(HeaderLang, rows)) : rows \in SeqsUpTo(LangRows, MaxRows) \cup BulkTables}
    \cup WithB(Dir(StemA, File(HeaderLang, <<GoodRow1, GoodRow2>>)))
    \cup {Dir(StemB, ContentB), <<>>, Dir(DataSources, ContentB), Dir(StemIds, ContentIds)}

\* A table name that no file of the directories gives.
TableZ == <<"z">>

\* args.tables
Requests == {<<>>, <<TableA>>, <<TableB, TableA, TableB>>, <<TableZ, DataSources, TableA>>}

\* ------------------------------------------------------------------------
\* State
\* ------------------------------------------------------------------------

VARIABLES
  db,          \* the SQLite file
  collection,  \* the Chroma collection
  lastLoad,    \* input and report of the last run of load_datasets.py
  lastIndex,   \* input and report of the last run of build_vector_store.py
  loads,       \* number of load runs so far
  indexRuns,   \* number of index runs so far
  arg,         \* the argument of the function called on its own
  out,         \* the value it returned last
  calls,       \* number of calls of it so far
  found        \* the collection as the last interrupted index run found it

vars == <<db, collection, lastLoad, lastIndex, loads, indexRuns, arg, out, calls, found>>

\* No function is called on its own in the runs of the two programs.
NoCall ==
  /\ arg = <<>>
  /\ out = <<>>
  /\ calls = 0

\* No index run was interrupted.
NoCrash == found = NoCollection

NoLoad ==
  [dir |-> <<>>, status |-> "none", file |-> <<>>, row |-> 0,
   total_rows |-> 0, inserts |-> <<>>, again |-> FALSE]

NoIndexRun ==
  [requested |-> <<>>, reset |-> FALSE, status |-> "none", missing |-> <<>>,
   tables |-> <<>>, upserts |-> <<>>, counts |-> <<>>, total_docs |-> 0,
   loads |-> 0, overwrote |-> 0]

\* again: the run before this one loaded the same directory and succeeded.
LoadReport(dir, r, again) ==
  [dir |-> dir, status |-> r.status, file |-> r.file, row |-> r.row,
   total_rows |-> r.total_rows, inserts |-> r.inserts, again |-> again]

\* The entries of all the batches of a run, in the order they were sent.
RECURSIVE Flatten(_)
Flatten(batches) ==
  IF batches = <<>> THEN <<>> ELSE Head(batches) \o Flatten(Tail(batches))

EntryIds(entries) == {entries[k].id : k \in 1..Len(entries)}

\* loads: the number of load runs before this index run; overwrote: how many
\* of the entries it sent replaced an entry that the collection held when
\* the ingestion began.
IndexReport(requested, reset, r, before) ==
  [requested |-> requested, reset |-> reset,
   status |-> r.status, missing |-> r.missing,
   tables |-> r.tables, upserts |-> r.upserts,
   counts |-> r.counts, total_docs |-> r.total_docs,
   loads |-> loads,
   overwrote |-> LET sent == Flatten(r.upserts)
                 IN  Cardinality({k \in 1..Len(sent) : sent[k].id \in before})]

Init ==
  /\ db = NoDatabase
  /\ collection = NoCollection
  /\ lastLoad = NoLoad
  /\ lastIndex = NoIndexRun
  /\ loads = 0
  /\ indexRuns = 0
  /\ NoCall
  /\ NoCrash

\* The file and the report a load run r of dir leaves.
Loaded(dir, r, again) ==
  /\ db' = r.db
  /\ lastLoad' = LoadReport(dir, r, again)

\* One run of load_datasets.py over the directory dir.
LoadRun(dir) ==
  /\ loads < MaxLoads
  /\ Loaded(dir, LoadMain(db, dir, loads + 1), lastLoad.status = "ok" /\ lastLoad.dir = dir)
  /\ loads' = loads + 1
  /\ UNCHANGED <<collection, lastIndex, indexRuns, arg, out, calls, found>>

\* The collection and the report an index run r leaves.
Indexed(requested, reset, r, before) ==
  /\ collection' = r.collection
  /\ lastIndex' = IndexReport(requested, reset, r, before)

\* One run of build_vector_store.py with --tables requested and --reset.
IndexRun(requested, reset) ==
  /\ indexRuns < MaxIndexRuns
  /\ Indexed(requested, reset, IndexMain(db, collection, requested, reset),
             IF reset THEN {} ELSE EntryIds(collection.entries))
  /\ indexRuns' = indexRuns + 1
  /\ UNCHANGED <<db, lastLoad, loads, arg, out, calls, found>>

\* The load stage: runs of load_datasets.py on an initially absent database.
LoadStep == \E dir \in LoadDirs : LoadRun(dir)

NextLoad == LoadStep

SpecLoad == Init /\ [][NextLoad]_vars

\* The points of ingest_file at which a run is stopped, for a file of n data
\* rows: 0 before the DROP, 1 after it, 2 after the CREATE, 2 + j after the
\* turn of the loop for data row j, n + 3 after the flush of the rest,
\* n + 4 after insert_metadata. Of the turns of the loop, the first two, the
\* last and those next to a full batch are taken.
StopPoints(n) ==
  {0, 1, 2, n + 3, n + 4}
    \cup {2 + j : j \in {k \in 1..n : k <= 2 \/ k = n \/ k % BATCH_SIZE <= 1}}

\* The connection and the executemany calls made when the process is
\* stopped after the loop over the rows got as far as looped: before the
\* flush of the rest (flushed FALSE, recorded FALSE), after it, or after
\* insert_metadata (recorded TRUE).
StoppedAfterRows(looped, stem, table_name, raw_headers, normalized_headers, now, flushed, recorded) ==
  IF looped.failed \/ ~flushed THEN [conn |-> looped.conn, calls |-> looped.calls]
  ELSE IF recorded
  THEN AfterRows(looped, stem, table_name, raw_headers, normalized_headers, now)
  ELSE IF looped.batch = <<>> THEN [conn |-> looped.conn, calls |-> looped.calls]
  ELSE [conn  |-> InsertRows(looped.conn, table_name, looped.batch),
        calls |-> Append(looped.calls, Len(looped.batch))]

\* The same when the process is stopped at point >= 1 of ingest_file, the
\* DROP being done; a CREATE that SQLite refuses ends the run there.
StoppedAfterDrop(dropped, stem, lines, table_name, normalized_headers, now, point) ==
  IF point = 1 \/ ~CanCreateTable(dropped, table_name, normalized_headers)
  THEN [conn |-> dropped, calls |-> <<>>]
  ELSE StoppedAfterRows(
         RowLoop(lines, 2, IF point - 1 < Len(lines) THEN point - 1 ELSE Len(lines),
                 table_name,
                 [conn      |-> CreateTable(dropped, table_name, normalized_headers),
                  row_count |-> 0, batch |-> <<>>, calls |-> <<>>, failed |-> FALSE]),
         stem, table_name, lines[1], normalized_headers, now,
         point >= Len(lines) + 2, point >= Len(lines) + 3)

\* ingest_file stopped at a point.
StoppedIn(conn, stem, lines, table_name, now, point) ==
  IF point = 0 \/ lines = <<>> THEN [conn |-> conn, calls |-> <<>>]
  ELSE StoppedAfterDrop(DropTable(conn, table_name), stem, lines, table_name,
                        [k \in 1..Len(lines[1]) |-> normalize_identifier(lines[1][k])],
                        now, point)

\* What a stopped run leaves: the file as it is on disk, nothing committed
\* that was not, and no report but the calls made for the file it was at.
StoppedReport(acc, stem, table_name, r) ==
  [db         |-> r.conn.durable,
   status     |-> IF acc.status = "ok" THEN "stopped" ELSE acc.status,
   file       |-> stem,
   row        |-> 0,
   total_rows |-> acc.total_rows,
   inserts    |-> Append(acc.inserts, [table |-> table_name, calls |-> r.calls])]

\* The run over dir, stopped at a point of ingest_file for its file i, the
\* files before it being ingested.
StoppedRun(acc, stem, lines, table_name, now, point) ==
  StoppedReport(acc, stem, table_name,
                StoppedIn(acc.conn, stem, lines, table_name, now, point))

\* One run of load_datasets.py over the directory dir that is stopped from
\* outside while it ingests its file i (a file that the run reaches).
LoadCrash(dir, i, point) ==
  /\ loads < MaxLoads
  /\ \E r \in {StoppedRun(
                  FileLoop(dir, SubSeq(gather_csv_files(dir), 1, i - 1), 1, loads + 1,
                    [conn |-> create_metadata_table(Connect(db)), status |-> "ok",
                     file |-> <<>>, row |-> 0, total_rows |-> 0, inserts |-> <<>>]),
                  gather_csv_files(dir)[i], dir[gather_csv_files(dir)[i]],
                  normalize_identifier(gather_csv_files(dir)[i]), loads + 1, point)} :
       /\ r.status = "stopped"
       /\ Loaded(dir, r, FALSE)
  /\ loads' = loads + 1
  /\ UNCHANGED <<collection, lastIndex, indexRuns, arg, out, calls, found>>

LoadCrashStep ==
  \E dir \in LoadDirs :
    \E i \in 1..Len(gather_csv_files(dir)) :
      \E point \in StopPoints(Len(dir[gather_csv_files(dir)[i]]) - 1) :
        LoadCrash(dir, i, point)

\* The load stage with runs that are stopped.
NextLoadCrash == LoadStep \/ LoadCrashStep

SpecLoadCrash == Init /\ [][NextLoadCrash]_vars

\* The index stage: runs of build_vector_store.py on the database that one
\* load run of a directory of IndexDirs has left.
LoadedFirst(dir, r) ==
  /\ db = r.db
  /\ lastLoad = LoadReport(dir, r, FALSE)

InitIndex ==
  \E dir \in IndexDirs :
    /\ LoadedFirst(dir, LoadMain(NoDatabase, dir, 1))
    /\ loads = 1
    /\ collection = NoCollection
    /\ lastIndex = NoIndexRun
    /\ indexRuns = 0
    /\ NoCall
    /\ NoCrash

IndexStep == \E requested \in Requests, reset \in BOOLEAN : IndexRun(requested, reset)

NextIndex == IndexStep

SpecIndex == InitIndex /\ [][NextIndex]_vars

\* The upsert calls batches[i..k] in order, on the collection coll.
RECURSIVE UpsertCalls(_, _, _, _)
UpsertCalls(coll, batches, i, k) ==
  IF i > k THEN coll
  ELSE UpsertCalls(CollectionUpsert(coll, batches[i]), batches, i + 1, k)

\* What an index run leaves when the process is stopped after k of the
\* upsert calls of the complete run r: the collection after these calls,
\* and no report but the calls made.
Interrupted(r, start, k) ==
  [collection |-> UpsertCalls(start, r.upserts, 1, k),
   status     |-> "interrupted",
   missing    |-> <<>>,
   tables     |-> r.tables,
   upserts    |-> SubSeq(r.upserts, 1, k),
   counts     |-> <<>>,
   total_docs |-> 0]

\* The run r, stopped after some number of its upsert calls.
Stopped(requested, reset, r, start) ==
  /\ r.status = "ok"
  /\ \E k \in 0..Len(r.upserts) :
       Indexed(requested, reset, Interrupted(r, start, k), {})
  /\ found' = collection

\* One run of build_vector_store.py that is stopped from outside after the
\* table lookup, between two statements of the ingestion. It is not counted
\* in indexRuns; a run is interrupted only when the run before it was not.
IndexCrash(requested, reset) ==
  /\ indexRuns < MaxIndexRuns
  /\ lastIndex.status # "interrupted"
  /\ Stopped(requested, reset, IndexMain(db, collection, requested, reset),
             [(IF reset THEN NoCollection ELSE collection) EXCEPT !.exists = TRUE])
  /\ UNCHANGED <<db, lastLoad, loads, indexRuns, arg, out, calls>>

CrashStep == \E requested \in Requests, reset \in BOOLEAN : IndexCrash(requested, reset)

\* The index stage with interrupted runs.
NextResume == IndexStep \/ CrashStep

SpecResume == InitIndex /\ [][NextResume]_vars

\* Directories that load without error: A.csv with two rows, with the
\* second of them only and with none, b.csv, and both files.
PipelineDirs ==
  {Dir(StemA, File(HeaderLang, rows)) : rows \in {<<GoodRow1, GoodRow2>>, <<GoodRow2>>, <<>>}}
    \cup WithB(Dir(StemA, File(HeaderLang, <<GoodRow1>>)))
    \cup {Dir(StemB, ContentB)}

PipelineLoadStep == \E dir \in PipelineDirs : LoadRun(dir)

PipelineIndexStep == \E reset \in BOOLEAN : IndexRun(<<>>, reset)

\* The two stages in any order: load runs that succeed and index runs over
\* all tables, in one database and one collection.
NextPipeline == PipelineLoadStep \/ PipelineIndexStep

SpecPipeline == Init /\ [][NextPipeline]_vars

\* ------------------------------------------------------------------------
\* Calls of one function on its own: the two programs do not run.
\* ------------------------------------------------------------------------

NoRun ==
  /\ db = NoDatabase
  /\ collection = NoCollection
  /\ lastLoad = NoLoad
  /\ lastIndex = NoIndexRun
  /\ loads = 0
  /\ indexRuns = 0
  /\ NoCrash

runVars == <<db, collection, lastLoad, lastIndex, loads, indexRuns, found>>

MaxColumns == 3

\* Column names as the loader makes them: with a suffix of each language,
\* with both, with the letters of a suffix but no underscore, with none.
ColumnNames ==
  { <<"a", "_", "e", "n">>, <<"b", "_", "f", "r">>,
    <<"c", "_", "e", "n", "g", "l", "i", "s", "h">>,
    <<"d", "_", "f", "r", "e", "n", "c", "h">>,
    <<"x", "_", "f", "r", "_", "e", "n">>,
    <<"e", "n">>, <<"n">>, <<"_", "f", "r">> }

MaxNameLen == 3

MaxCalls == 2

\* Characters of names: letters of both cases, a digit, the underscore,
\* white space, punctuation, an accented letter and a letter without ASCII
\* form.
NameChars == {"a", "B", "1", "_", " ", "-", "é", "ß"}

InitNormalize ==
  /\ NoRun
  /\ arg \in SeqsUpTo(NameChars, MaxNameLen)
  /\ out = arg
  /\ calls = 0

\* normalize_identifier of the text at hand: the argument, then the result
\* of the call before.
NormalizeCall ==
  /\ calls < MaxCalls
  /\ out' = normalize_identifier(out)
  /\ calls' = calls + 1
  /\ UNCHANGED <<arg, runVars>>

NextNormalize == NormalizeCall

SpecNormalize == InitNormalize /\ [][NextNormalize]_vars

MaxCellLen == 3

\* Characters of cells: digits, both signs, the point, a blank, a letter and
\* the letters of a null token.
CellChars == {"0", "7", "-", "+", ".", " ", "x", "N", "a"}

InitCoerce ==
  /\ NoRun
  /\ arg \in SeqsUpTo(CellChars, MaxCellLen)
  /\ out = PyNone
  /\ calls = 0

\* coerce_value(arg)
CoerceCall ==
  /\ calls = 0
  /\ out' = coerce_value(arg)
  /\ calls' = 1
  /\ UNCHANGED <<arg, runVars>>

NextCoerce == CoerceCall

SpecCoerce == InitCoerce /\ [][NextCoerce]_vars

InitPartition ==
  /\ NoRun
  /\ arg \in SeqsUpTo(ColumnNames, MaxColumns)
  /\ out = <<>>
  /\ calls = 0

\* partition_language_columns(arg)
PartitionCall ==
  /\ calls = 0
  /\ out' = partition_language_columns(arg)
  /\ calls' = 1
  /\ UNCHANGED <<arg, runVars>>

NextPartition == PartitionCall

SpecPartition == InitPartition /\ [][NextPartition]_vars

\* ------------------------------------------------------------------------
\* services: validator.py and the /assist operation of api/main.py
\* A submission: service_id, preferred_language, preferred_channel, sin,
\* cra_business_number (None when absent), program_answers (a function from
\* keys to texts). The repository is a function from the service ids it
\* knows to their metadata, the schema repository a function from service
\* ids to the keys of the fields of their schema.
\* ------------------------------------------------------------------------

\* Python's truth of an optional text.
Truthy(text) == text # None /\ text # <<>>

Issue(field, severity) == [field |-> field, severity |-> severity]

\* Python's None where a ServiceMetadata is expected.
NoMetadata == [absent |-> TRUE]

\* repository.get_metadata
get_metadata(repository, service_id) ==
  IF service_id \in DOMAIN repository THEN repository[service_id] ELSE NoMetadata

\* The issues that _validate_language appends.
validate_language(submission, metadata) ==
  (IF submission.preferred_language = En /\ ~Truthy(metadata.service_name_en)
   THEN <<Issue("preferred_language", "error")>> ELSE <<>>)
  \o (IF submission.preferred_language = Fr /\ ~Truthy(metadata.service_name_fr)
      THEN <<Issue("preferred_language", "error")>> ELSE <<>>)

\* The issues that _validate_channel appends.
validate_channel(submission, metadata) ==
  LET normalized == Lower(Strip(submission.preferred_channel, SpaceChars)) IN
  IF normalized = <<>> THEN <<Issue("preferred_channel", "error")>>
  ELSE IF metadata.channels # <<>>
  THEN IF \E k \in 1..Len(metadata.channels) : metadata.channels[k] = normalized
       THEN <<>> ELSE <<Issue("preferred_channel", "error")>>
  ELSE <<Issue("preferred_channel", "warning")>>

\* The issues that _validate_identifiers appends.
validate_identifiers(submission, metadata) ==
  (IF metadata.requires_sin /\ ~Truthy(submission.sin)
   THEN <<Issue("sin", "error")>> ELSE <<>>)
  \o (IF metadata.requires_cra /\ ~Truthy(submission.cra_business_number)
      THEN <<Issue("cra_business_number", "error")>> ELSE <<>>)

\* The keys of the schema fields without an answer, in the order of the
\* schema: _validate_program_fields appends an issue for each and returns
\* a question for each.
validate_program_fields(submission, metadata, schemas) ==
  IF metadata.service_id \notin DOMAIN schemas THEN <<>>
  ELSE SelectSeq(schemas[metadata.service_id],
         LAMBDA key : ~(/\ key \in DOMAIN submission.program_answers
                        /\ Truthy(submission.program_answers[key])
                        /\ Strip(submission.program_answers[key], SpaceChars) # <<>>))

\* not any(issue.severity == "error" for issue in issues)
NoError(issues) == \A k \in 1..Len(issues) : issues[k].severity # "error"

\* The result for a service the repository knows.
Validated(metadata, issues, questions) ==
  [is_valid |-> NoError(issues), issues |-> issues, metadata |-> metadata,
   follow_up_questions |-> questions]

\* ServiceValidator.validate
validate(submission, repository, schemas) ==
  LET metadata == get_metadata(repository, submission.service_id) IN
  IF metadata = NoMetadata
  THEN [is_valid |-> FALSE, issues |-> <<Issue("service_id", "error")>>,
        metadata |-> NoMetadata, follow_up_questions |-> <<>>]
  ELSE LET questions == validate_program_fields(submission, metadata, schemas)
       IN  Validated(metadata,
             validate_language(submission, metadata)
               \o validate_channel(submission, metadata)
               \o validate_identifiers(submission, metadata)
               \o [k \in 1..Len(questions) |-> Issue(questions[k], "error")],
             questions)

\* raise HTTPException(status_code=..., ...): invoked lists the components
\* called before it.
HttpError(status, invoked) ==
  [status |-> status, validation |-> None, search |-> None, outputs |-> None,
   invoked |-> invoked]

\* request.query or " ".join(filter(None, [service_name_en, service_type,
\* service_scope]))
SearchQuery(request, metadata) ==
  IF Truthy(request.query) THEN request.query
  ELSE Join(SelectSeq(<<metadata.service_name_en, metadata.service_type,
                        metadata.service_scope>>, Truthy), <<" ">>)

\* The steps after the search returned hits: the call of the assistant,
\* whose outcome llm is that the call raises, that the text it returns is
\* no JSON, a JSON array or a JSON object.
Generated(validation, search_query, hits, llm) ==
  IF llm \in {"raises", "notjson"}
  THEN HttpError(502, <<"validate", "search", "generate">>)
  ELSE IF llm = "array"
  THEN HttpError(500, <<"validate", "search", "generate">>)
  ELSE [status     |-> 200,
        validation |-> validation,
        search     |-> [query |-> search_query, results |-> hits],
        outputs    |-> <<"outputs">>,
        invoked    |-> <<"validate", "search", "generate">>]

\* Variant: the request goes on to the search whatever the validation says.
ProceedsAlways(validation) == TRUE

\* The test of line 178: the request goes on to the search.
Proceeds(validation) == validation.is_valid

\* assist with the validation done. found_hits is what searcher.search does
\* when called: it raises (failed) or returns results.
Assisted(request, validation, found_hits, llm) ==
  IF validation.metadata = NoMetadata THEN HttpError(404, <<"validate">>)
  ELSE IF ~Proceeds(validation)
  THEN [status     |-> 200,
        validation |-> validation,
        search     |-> [query   |-> IF Truthy(request.query) THEN request.query ELSE <<>>,
                        results |-> <<>>],
        outputs    |-> None,
        invoked    |-> <<"validate">>]
  ELSE IF found_hits.failed THEN HttpError(500, <<"validate", "search">>)
  ELSE Generated(validation, SearchQuery(request, validation.metadata),
                 found_hits.results, llm)

\* The /assist operation.
assist(request, repository, schemas, found_hits, llm) ==
  Assisted(request, validate(request.submission, repository, schemas), found_hits, llm)

\* ------------------------------------------------------------------------
\* Calls of /assist
\* ------------------------------------------------------------------------

Email == <<"e", "m", "a", "i", "l">>

\* What the repository holds for the service s1.
Metadatas ==
  [service_id      : {"s1"},
   service_name_en : {None, <<"N">>},
   service_name_fr : {None, <<"N">>},
   service_type    : {<<"t">>},
   service_scope   : {None},
   channels        : {<<>>, <<Email>>},
   requires_sin    : BOOLEAN,
   requires_cra    : BOOLEAN]

\* Submissions for s1 and for a service the repository does not know.
Submissions ==
  [service_id          : {"s1", "zz"},
   preferred_language  : {En, Fr},
   preferred_channel   : {<<" ">>, <<" ", "E", "m", "a", "i", "l">>, <<"f", "a", "x">>},
   sin                 : {None, <<"1">>},
   cra_business_number : {None, <<"2">>},
   program_answers     : {<<>>, [key \in {"k"} |-> <<" ">>], [key \in {"k"} |-> <<"a">>]}]

\* The calls: a request, the repository and the schema repository it meets.
AssistCalls ==
  [request    : [submission : Submissions, query : {None, <<"q">>}],
   repository : {[id \in {"s1"} |-> metadata] : metadata \in Metadatas},
   schemas    : {<<>>, [id \in {"s1"} |-> <<"k">>]}]

\* What searcher.search does when it is called.
SearchOutcomes ==
  {[failed |-> TRUE, results |-> <<>>],
   [failed |-> FALSE, results |-> <<>>],
   [failed |-> FALSE, results |-> <<"hit">>]}

LlmOutcomes == {"raises", "notjson", "array", "object"}

InitAssist ==
  /\ NoRun
  /\ arg \in AssistCalls
  /\ out = <<>>
  /\ calls = 0

\* One call of /assist.
AssistCall ==
  /\ calls = 0
  /\ \E found_hits \in SearchOutcomes, llm \in LlmOutcomes :
       out' = assist(arg.request, arg.repository, arg.schemas, found_hits, llm)
  /\ calls' = calls + 1
  /\ UNCHANGED <<arg, runVars>>

NextAssist == AssistCall

SpecAssist == InitAssist /\ [][NextAssist]_vars

\* ------------------------------------------------------------------------
\* Properties of the index stage
\* ------------------------------------------------------------------------

\* The last index run completed, and no load run has changed the database
\* since.
IndexedOk == lastIndex.status = "ok" /\ lastIndex.loads = loads

Sent == Flatten(lastIndex.upserts)

IndexedTables == {lastIndex.tables[k] : k \in 1..Len(lastIndex.tables)}

RowIds(t) == 1..Len(db.tables[t].rows)

RowDictOf(t, i) == RowDict(db.tables[t].columns, i, db.tables[t].rows[i])

SharedTextOf(t, i) ==
  build_text(RowDictOf(t, i), partition_language_columns(db.tables[t].columns).shared)

LangTextOf(t, i, l) ==
  build_text(RowDictOf(t, i), partition_language_columns(db.tables[t].columns).lang_columns[l])

Languages == 1..Len(LANG_SUFFIX_MAP)

\* The positions in Sent of the documents of row i of table t, and those of
\* them tagged with a language.
SentFor(t, i) ==
  {k \in 1..Len(Sent) :
     /\ Sent[k].metadata.table_name = t
     /\ Sent[k].metadata.row_identifier = t \o <<":">> \o IntText(i)}

SentTagged(t, i, language) ==
  {k \in SentFor(t, i) : Sent[k].metadata.language = language}

BlankLineSep == <<"\n", "\n">>

\* C1: a row whose language column groups all yield no text but whose
\* shared columns yield text gives exactly one document, tagged "unknown" and
\* carrying only the shared text, and no document tagged "en" or "fr".
C1_SharedOnlyRowGivesUnknown ==
  IndexedOk =>
    \A t \in IndexedTables : \A i \in RowIds(t) :
      ((\A l \in Languages : LangTextOf(t, i, l) = None) /\ SharedTextOf(t, i) # None)
        => /\ Cardinality(SentFor(t, i)) = 1
           /\ \A k \in SentFor(t, i) :
                /\ Sent[k].metadata.language = Unknown
                /\ Sent[k].document = SharedTextOf(t, i)

\* C2: a row with English text and shared text but no French text gives
\* exactly one document, tagged "en" and holding the English block and the
\* shared block, and no document tagged "fr" or "unknown".
C2_EnglishAndSharedGivesOneEn ==
  IndexedOk =>
    \A t \in IndexedTables : \A i \in RowIds(t) :
      (LangTextOf(t, i, 1) # None /\ LangTextOf(t, i, 2) = None /\ SharedTextOf(t, i) # None)
        => /\ Cardinality(SentFor(t, i)) = 1
           /\ \A k \in SentFor(t, i) :
                /\ Sent[k].metadata.language = En
                /\ Sent[k].document =
                     LangTextOf(t, i, 1) \o BlankLineSep \o SharedTextOf(t, i)

\* C3: for every row and every configured language L, exactly one document
\* tagged L is sent if L's text or the shared text exists, none otherwise;
\* its content is L's text, a blank line, the shared text, of which only the
\* existing blocks are used. A row with neither text gives no document.
C3_OneDocumentPerLanguage ==
  IndexedOk =>
    \A t \in IndexedTables : \A i \in RowIds(t) :
      LET shared == SharedTextOf(t, i) IN
      /\ \A l \in Languages :
           LET text == LangTextOf(t, i, l)
               docs == SentTagged(t, i, LANG_SUFFIX_MAP[l].lang)
           IN  IF text = None /\ shared = None THEN docs = {}
               ELSE /\ Cardinality(docs) = 1
                    /\ \A k \in docs :
                         Sent[k].document =
                           IF shared = None THEN text
                           ELSE IF text = None THEN shared
                           ELSE text \o BlankLineSep \o shared
      /\ (shared = None /\ \A l \in Languages : LangTextOf(t, i, l) = None)
           => SentFor(t, i) = {}

\* A row with English text, shared text and no French text was indexed and
\* gave an "en" document of two blocks and a "fr" document.
C3_Witness ==
  /\ IndexedOk
  /\ \E t \in IndexedTables : \E i \in RowIds(t) :
       /\ LangTextOf(t, i, 1) # None
       /\ LangTextOf(t, i, 2) = None
       /\ SharedTextOf(t, i) # None
       /\ \E k \in SentTagged(t, i, En) :
            Sent[k].document = LangTextOf(t, i, 1) \o BlankLineSep \o SharedTextOf(t, i)
       /\ SentTagged(t, i, Fr) # {}

\* The (table, row identifier, language) of an entry.
Triple(entry) ==
  <<entry.metadata.table_name, entry.metadata.row_identifier, entry.metadata.language>>

\* C4: every document id is table:row:language for the table, the rowid of
\* a stored row and the language of its document; no two documents sent in
\* one index run come from the same triple, documents of distinct triples
\* have distinct ids, and no two entries of the collection share an id.
C4_DocumentIdsUnique ==
  IndexedOk =>
    /\ \A k \in 1..Len(Sent) :
         \E t \in IndexedTables : \E i \in RowIds(t) :
           \E language \in {En, Fr, Unknown} :
             /\ Triple(Sent[k]) = <<t, t \o <<":">> \o IntText(i), language>>
             /\ Sent[k].id = t \o <<":">> \o IntText(i) \o <<":">> \o language
    /\ \A j, k \in 1..Len(Sent) :
         /\ Triple(Sent[j]) = Triple(Sent[k]) => j = k
         /\ Sent[j].id = Sent[k].id => j = k
    /\ \A j, k \in 1..Len(collection.entries) :
         collection.entries[j].id = collection.entries[k].id => j = k

\* Two tables were indexed in one run, one of them with a row that gave a
\* document for each language.
C4_Witness ==
  /\ IndexedOk
  /\ Cardinality(IndexedTables) = 2
  /\ \E t \in IndexedTables : \E i \in RowIds(t) :
       SentTagged(t, i, En) # {} /\ SentTagged(t, i, Fr) # {}

IndexRunStep == indexRuns' = indexRuns + 1

EntrySet(coll) == {coll.entries[k] : k \in 1..Len(coll.entries)}

\* C5: an index run without reset over tables that the run before it has
\* ingested from the same database leaves the collection as it was: the
\* same ids, the same number of entries, the same text and metadata per id.
C5_ReindexIsIdempotent ==
  [][(/\ IndexRunStep
      /\ IndexedOk
      /\ lastIndex'.status = "ok"
      /\ ~lastIndex'.reset
      /\ \A k \in 1..Len(lastIndex'.tables) : lastIndex'.tables[k] \in IndexedTables)
     => /\ EntryIds(collection'.entries) = EntryIds(collection.entries)
        /\ Len(collection'.entries) = Len(collection.entries)
        /\ EntrySet(collection') = EntrySet(collection)]_vars

\* The second run sent documents and each of them replaced an entry.
C5_Witness ==
  /\ IndexedOk
  /\ indexRuns = 2
  /\ ~lastIndex.reset
  /\ lastIndex.total_docs > 1
  /\ lastIndex.overwrote = lastIndex.total_docs
  /\ Len(collection.entries) = lastIndex.total_docs

\* The batches that the run sent for table t: a batch holds documents of
\* one table only.
BatchesOf(t) ==
  SelectSeq(lastIndex.upserts, LAMBDA batch : batch[1].metadata.table_name = t)

\* Number of documents the rows of table t give: one per row and language
\* that has text or shared text.
DocumentCount(t) ==
  Cardinality({<<i, l>> \in RowIds(t) \X Languages :
                 LangTextOf(t, i, l) # None \/ SharedTextOf(t, i) # None})

\* C6: for a table whose rows give D documents the run makes ceil(D/128)
\* upsert calls, each of 1 to 128 documents and all but the last of 128
\* (none when D = 0); every document is sent in exactly one call and the
\* count returned for the table is D.
C6_BatchesOfAtMost128 ==
  IndexedOk =>
    /\ \A b \in 1..Len(lastIndex.upserts) :
         /\ lastIndex.upserts[b] # <<>>
         /\ \A k \in 1..Len(lastIndex.upserts[b]) :
              lastIndex.upserts[b][k].metadata.table_name
                = lastIndex.upserts[b][1].metadata.table_name
    /\ \A p \in 1..Len(lastIndex.tables) :
         LET t       == lastIndex.tables[p]
             D       == DocumentCount(t)
             batches == BatchesOf(t)
         IN  /\ lastIndex.counts[p] = D
             /\ Len(batches) = (D + VECTOR_BATCH_SIZE - 1) \div VECTOR_BATCH_SIZE
             /\ \A b \in 1..Len(batches) :
                  /\ Len(batches[b]) \in 1..VECTOR_BATCH_SIZE
                  /\ b < Len(batches) => Len(batches[b]) = VECTOR_BATCH_SIZE
             /\ Len(Flatten(batches)) = D
             /\ \A i \in RowIds(t) : \A l \in Languages :
                  (LangTextOf(t, i, l) # None \/ SharedTextOf(t, i) # None)
                    => Cardinality(SentTagged(t, i, LANG_SUFFIX_MAP[l].lang)) = 1

\* A table of 130 rows of one document each was sent in two calls, of 128
\* and of 2 documents.
C6_Witness ==
  /\ IndexedOk
  /\ lastIndex.tables = <<TableA>>
  /\ Len(db.tables[TableA].rows) = 130
  /\ lastIndex.counts = <<130>>
  /\ Len(lastIndex.upserts) = 2
  /\ Len(lastIndex.upserts[1]) = 128
  /\ Len(lastIndex.upserts[2]) = 2

\* ------------------------------------------------------------------------
\* Properties of the load stage
\* ------------------------------------------------------------------------

LoadRunStep == loads' = loads + 1

\* The tables that the sources of a directory are loaded into.
TablesOf(dir) == {normalize_identifier(stem) : stem \in DOMAIN dir}

LedgerRecords(d, t) == {k \in 1..Len(d.ledger) : d.ledger[k].table_name = t}

\* C7: loading the same unchanged sources a second time leaves each of
\* their tables with the columns and rows of the first load, and the ledger
\* with one record for the table, equal to the record of the first load in
\* every field but the timestamp.
C7_ReloadReplaces ==
  [][(/\ LoadRunStep
      /\ lastLoad.status = "ok"
      /\ lastLoad'.status = "ok"
      /\ lastLoad'.dir = lastLoad.dir)
     => \A t \in TablesOf(lastLoad.dir) :
          /\ t \in TableNames(db')
          /\ db'.tables[t] = db.tables[t]
          /\ Cardinality(LedgerRecords(db', t)) = 1
          /\ \A j \in LedgerRecords(db, t) : \A k \in LedgerRecords(db', t) :
               [db'.ledger[k] EXCEPT !.ingested_at = 0]
                 = [db.ledger[j] EXCEPT !.ingested_at = 0]]_vars

\* The second of two successful runs over one directory, whose table holds
\* two rows or more.
C7_Witness ==
  /\ lastLoad.again
  /\ lastLoad.status = "ok"
  /\ \E t \in TablesOf(lastLoad.dir) :
       /\ Len(db.tables[t].rows) >= 2
       /\ \E k \in LedgerRecords(db, t) : db.ledger[k].ingested_at = 2

\* A data row that is not blank and has not as many cells as the header.
IsMismatch(content, i) ==
  ~IsBlankRow(content[i]) /\ Len(content[i]) # Len(content[1])

HasMismatch(content) ==
  \E i \in 2..Len(content) : IsMismatch(content, i)

\* C8: when a source has a row whose cell count differs from the header's,
\* wherever the row is, the run fails and commits no row of that source:
\* after the run its table is absent, or empty, or what it was before.
C8_MismatchCommitsNoRow ==
  [][LoadRunStep =>
       \A stem \in DOMAIN lastLoad'.dir :
         HasMismatch(lastLoad'.dir[stem]) =>
           LET t == normalize_identifier(stem)
           IN  /\ lastLoad'.status \notin {"ok", "none", "nofiles"}
               /\ \/ t \notin TableNames(db')
                  \/ db'.tables[t].rows = <<>>
                  \/ (t \in TableNames(db) /\ db'.tables[t] = db.tables[t])]_vars

\* A run failed on a row length mismatch after a full batch of the same
\* source had been inserted, and the table of the source is empty.
C8_Witness ==
  /\ lastLoad.status = "shape"
  /\ LET t == normalize_identifier(lastLoad.file)
         last == lastLoad.inserts[Len(lastLoad.inserts)]
     IN  /\ last.table = t
         /\ last.calls = <<BATCH_SIZE>>
         /\ t \in TableNames(db)
         /\ db.tables[t].rows = <<>>

\* C9: the error of a row length mismatch names the 1-based position of
\* the offending row in its source, the header being row 1, also when blank
\* rows precede it.
C9_ErrorNamesRowPosition ==
  lastLoad.status = "shape" =>
    LET content == lastLoad.dir[lastLoad.file]
    IN  /\ lastLoad.row \in 2..Len(content)
        /\ IsMismatch(content, lastLoad.row)
        /\ \A i \in 2..(lastLoad.row - 1) : ~IsMismatch(content, i)

\* C10: the ledger never holds two records of one table name; after a
\* successful run the record of the table of each source has the row count
\* of the table, and its normalized columns are, one for one, the
\* normalisations of its original columns.
C10_LedgerInvariant ==
  /\ \A j, k \in 1..Len(db.ledger) :
       db.ledger[j].table_name = db.ledger[k].table_name => j = k
  /\ lastLoad.status = "ok" =>
       \A t \in TablesOf(lastLoad.dir) :
         /\ t \in TableNames(db)
         /\ LedgerRecords(db, t) # {}
         /\ \A k \in LedgerRecords(db, t) :
              LET rec == db.ledger[k]
              IN  /\ rec.row_count = Len(db.tables[t].rows)
                  /\ Len(rec.normalized_columns) = Len(rec.original_columns)
                  /\ \A c \in 1..Len(rec.original_columns) :
                       rec.normalized_columns[c] = normalize_identifier(rec.original_columns[c])
                  /\ rec.normalized_columns = db.tables[t].columns

\* After two runs the ledger holds the records of two tables, one of them
\* written by the second run for a table of two rows whose column names
\* were changed by the normalisation.
C10_Witness ==
  /\ loads = 2
  /\ lastLoad.status = "ok"
  /\ Len(db.ledger) = 2
  /\ \E k \in 1..Len(db.ledger) :
       /\ db.ledger[k].ingested_at = 2
       /\ db.ledger[k].row_count = 2
       /\ db.ledger[k].normalized_columns # db.ledger[k].original_columns

\* ------------------------------------------------------------------------
\* Properties of the table lookup of the index stage
\* ------------------------------------------------------------------------

RequestedTables == {lastIndex.requested[k] : k \in 1..Len(lastIndex.requested)}

\* The last index run found the database.
IndexedDatabase == lastIndex.status \in {"ok", "notfound"} /\ lastIndex.loads = loads

\* C12: the enumeration of the tables never returns data_sources, no run
\* ingests it or sends a document of it, and a run whose requested subset
\* names it ends with the table-not-found error that lists it.
C12_LedgerNeverIndexed ==
  /\ \A k \in 1..Len(get_all_tables(db)) : get_all_tables(db)[k] # DataSources
  /\ \A k \in 1..Len(lastIndex.tables) : lastIndex.tables[k] # DataSources
  /\ \A k \in 1..Len(Sent) : Sent[k].metadata.table_name # DataSources
  /\ (IndexedDatabase /\ DataSources \in RequestedTables)
       => /\ lastIndex.status = "notfound"
          /\ \E k \in 1..Len(lastIndex.missing) : lastIndex.missing[k] = DataSources

\* A run on a database whose ledger holds a record named data_sources in its
\* subset and was refused with it among the missing names.
C12_Witness ==
  /\ db.hasLedger
  /\ db.ledger # <<>>
  /\ IndexedDatabase
  /\ DataSources \in RequestedTables
  /\ lastIndex.status = "notfound"
  /\ \E k \in 1..Len(lastIndex.missing) : lastIndex.missing[k] = DataSources

\* The names of a requested subset that the enumeration of the tables of
\* database d does not return.
AbsentTables(requested, d) ==
  {requested[k] : k \in 1..Len(requested)}
    \ {get_all_tables(d)[k] : k \in 1..Len(get_all_tables(d))}

\* C18: an index run on an existing database whose requested subset has
\* names that are not tables of the enumeration ends with the
\* table-not-found error; the error lists every such name, each once; no
\* table is ingested and nothing is sent.
C18_NotFoundListsEveryAbsentName ==
  [][(/\ IndexRunStep
      /\ db.exists
      /\ AbsentTables(lastIndex'.requested, db) # {})
     => /\ lastIndex'.status = "notfound"
        /\ {lastIndex'.missing[k] : k \in 1..Len(lastIndex'.missing)}
             = AbsentTables(lastIndex'.requested, db)
        /\ Len(lastIndex'.missing) = Cardinality(AbsentTables(lastIndex'.requested, db))
        /\ lastIndex'.tables = <<>>
        /\ lastIndex'.upserts = <<>>
        /\ lastIndex'.counts = <<>>]_vars

\* A run that asked for a stored table and for two names that are none was
\* refused with both names.
C18_Witness ==
  /\ lastIndex.status = "notfound"
  /\ lastIndex.loads = loads
  /\ TableA \in TableNames(db)
  /\ TableA \in RequestedTables
  /\ Len(lastIndex.missing) = 2
  /\ lastIndex.missing[1] # lastIndex.missing[2]

\* C19: an index run that finds no database file, or a requested name that
\* is no table, leaves the collection as it was: not deleted (also with
\* reset), not created, nothing upserted.
C19_FailedLookupLeavesCollection ==
  [][(/\ IndexRunStep
      /\ (~db.exists \/ AbsentTables(lastIndex'.requested, db) # {}))
     => /\ lastIndex'.status = (IF db.exists THEN "notfound" ELSE "nodatabase")
        /\ collection' = collection
        /\ lastIndex'.upserts = <<>>
        /\ lastIndex'.total_docs = 0]_vars

\* A run with reset was refused for an unknown table name while the
\* collection held entries, and the entries are still there.
C19_Witness ==
  /\ lastIndex.status = "notfound"
  /\ lastIndex.reset
  /\ indexRuns = 2
  /\ collection.exists
  /\ collection.entries # <<>>

\* ------------------------------------------------------------------------
\* More properties of the load stage
\* ------------------------------------------------------------------------

\* The sources of a directory that have no row at all, the header included.
EmptySources(dir) == {stem \in DOMAIN dir : dir[stem] = <<>>}

\* What database d holds of table t: the table and its ledger records.
Holding(d, t) ==
  [table   |-> IF t \in TableNames(d) THEN <<d.tables[t]>> ELSE <<>>,
   records |-> {d.ledger[k] : k \in LedgerRecords(d, t)}]

\* C20: a source with no row at all makes the run fail; the error of the
\* empty source names that source; ingest_file raises it with the
\* connection as it got it, so the table of that name, its rows and its
\* ledger record are after the run what they were before it (no other
\* source of the run being loaded into the same table).
C20_EmptySourceTouchesNothing ==
  [][LoadRunStep =>
       /\ EmptySources(lastLoad'.dir) # {} => lastLoad'.status \notin {"ok", "none", "nofiles"}
       /\ \A stem \in EmptySources(lastLoad'.dir) :
            /\ gather_csv_files(lastLoad'.dir)[1] = stem
                 => lastLoad'.status = "empty" /\ lastLoad'.file = stem
            /\ ingest_file(create_metadata_table(Connect(db)), stem, <<>>,
                           normalize_identifier(stem), loads').conn
                 = create_metadata_table(Connect(db))
       /\ lastLoad'.status = "empty" =>
            /\ lastLoad'.file \in EmptySources(lastLoad'.dir)
            /\ (\A stem \in DOMAIN lastLoad'.dir :
                  normalize_identifier(stem) = normalize_identifier(lastLoad'.file)
                    => stem = lastLoad'.file)
                 => Holding(db', normalize_identifier(lastLoad'.file))
                      = Holding(db, normalize_identifier(lastLoad'.file))]_vars

\* The second run failed on an empty source whose table the first run had
\* filled, and the table still has its rows and its ledger record.
C20_Witness ==
  /\ loads = 2
  /\ lastLoad.status = "empty"
  /\ DOMAIN lastLoad.dir = {lastLoad.file}
  /\ LET t == normalize_identifier(lastLoad.file)
     IN  /\ t \in TableNames(db)
         /\ Len(db.tables[t].rows) >= 2
         /\ \E k \in LedgerRecords(db, t) : db.ledger[k].ingested_at = 1

\* The rows of a source that the loader accepts, as they are stored: the
\* data rows that are not blank, every cell coerced.
AcceptedRows(content) ==
  LET kept == SelectSeq(Tail(content), LAMBDA row : ~IsBlankRow(row))
  IN  [i \in 1..Len(kept) |->
         [k \in 1..Len(kept[i]) |-> StoredCell(coerce_value(kept[i][k]))]]

\* C11: after a successful load run over N distinct source files the store
\* holds one table for each source, N in all, each with exactly the accepted
\* rows of its source; no two sources of the run share a table.
C11_OneTablePerSource ==
  lastLoad.status = "ok" =>
    /\ \A stem \in DOMAIN lastLoad.dir :
         /\ normalize_identifier(stem) \in TableNames(db)
         /\ db.tables[normalize_identifier(stem)].rows = AcceptedRows(lastLoad.dir[stem])
    /\ \A s1, s2 \in DOMAIN lastLoad.dir :
         s1 # s2 => normalize_identifier(s1) # normalize_identifier(s2)
    /\ Cardinality(TablesOf(lastLoad.dir)) = Cardinality(DOMAIN lastLoad.dir)

\* The sum of a list of numbers.
RECURSIVE SumOf(_)
SumOf(q) == IF q = <<>> THEN 0 ELSE Head(q) + SumOf(Tail(q))

\* The source i of the directory of the last run, in the order of the run.
SourceAt(i) == gather_csv_files(lastLoad.dir)[i]

\* No other source of the directory of the last run is loaded into the
\* table of stem.
OwnTable(stem) ==
  \A other \in DOMAIN lastLoad.dir :
    normalize_identifier(other) = normalize_identifier(stem) => other = stem

\* C23: after a successful load run the table of every source holds the
\* accepted rows of the source, each once, in the order of the source; the
\* inserts of a source carry BATCH_SIZE rows each but the last, which
\* carries between 1 and BATCH_SIZE; no insert is empty; the counts
\* returned add up to the rows written.
C23_BatchedInserts ==
  lastLoad.status = "ok" =>
    /\ Len(lastLoad.inserts) = Len(gather_csv_files(lastLoad.dir))
    /\ \A i \in 1..Len(lastLoad.inserts) :
         LET sizes    == lastLoad.inserts[i].calls
             accepted == AcceptedRows(lastLoad.dir[SourceAt(i)])
         IN  /\ lastLoad.inserts[i].table = normalize_identifier(SourceAt(i))
             /\ SumOf(sizes) = Len(accepted)
             /\ \A c \in 1..Len(sizes) :
                  /\ sizes[c] \in 1..BATCH_SIZE
                  /\ c < Len(sizes) => sizes[c] = BATCH_SIZE
             /\ OwnTable(SourceAt(i))
                  => db.tables[normalize_identifier(SourceAt(i))].rows = accepted
    /\ lastLoad.total_rows
         = SumOf([i \in 1..Len(lastLoad.inserts) |-> SumOf(lastLoad.inserts[i].calls)])

\* A source of one row more than the batch size was loaded with an insert
\* of BATCH_SIZE rows and an insert of one row.
C23_Witness ==
  /\ lastLoad.status = "ok"
  /\ \E i \in 1..Len(lastLoad.inserts) :
       /\ lastLoad.inserts[i].calls = <<BATCH_SIZE, 1>>
       /\ Len(db.tables[lastLoad.inserts[i].table].rows) = BATCH_SIZE + 1
       /\ lastLoad.total_rows = BATCH_SIZE + 1

OnlyWhiteSpace(text) == \A n \in 1..Len(text) : text[n] \in {" ", "\t"}

\* The row has no cell, or nothing but white space in every cell.
EntirelyBlank(row) == \A k \in 1..Len(row) : OnlyWhiteSpace(row[k])

\* The content without its entirely blank data rows.
WithoutBlankRows(content) ==
  IF content = <<>> THEN <<>>
  ELSE <<content[1]>> \o SelectSeq(Tail(content), LAMBDA row : ~EntirelyBlank(row))

\* C24: a load run does what it does on the sources with their entirely
\* blank data rows taken out: the same end (success, or the same error),
\* the same database, the same inserts, the same count of rows.
C24_BlankRowsAreSkipped ==
  [][LoadRunStep =>
       \A same \in {LoadMain(db, [stem \in DOMAIN lastLoad'.dir |->
                                    WithoutBlankRows(lastLoad'.dir[stem])], loads')} :
         /\ db' = same.db
         /\ lastLoad'.status = same.status
         /\ lastLoad'.file = same.file
         /\ lastLoad'.total_rows = same.total_rows
         /\ lastLoad'.inserts = same.inserts]_vars

\* A source with blank rows of four and of three cells around its two good
\* rows was loaded: two rows counted, two rows in the table.
C24_Witness ==
  /\ lastLoad.status = "ok"
  /\ lastLoad.total_rows = 2
  /\ \E stem \in DOMAIN lastLoad.dir :
       LET content == lastLoad.dir[stem]
       IN  /\ Len(content) = 6
           /\ EntirelyBlank(content[2]) /\ Len(content[2]) > Len(content[1])
           /\ EntirelyBlank(content[4]) /\ Len(content[4]) = Len(content[1])
           /\ EntirelyBlank(content[6])
           /\ Len(db.tables[normalize_identifier(stem)].rows) = 2

\* C22: whatever the end of a load run (success, an error, a stop at any
\* point), every table of the database is after it what it was before, or
\* empty, or holds all the accepted rows of a source of the run that is
\* loaded into it: never some of the rows of a source.
C22_NoHalfWrittenTable ==
  [][LoadRunStep =>
       \A t \in TableNames(db') :
         \/ t \in TableNames(db) /\ db'.tables[t] = db.tables[t]
         \/ db'.tables[t].rows = <<>>
         \/ /\ lastLoad'.status = "ok"
            /\ \E stem \in DOMAIN lastLoad'.dir :
                 /\ normalize_identifier(stem) = t
                 /\ db'.tables[t].rows = AcceptedRows(lastLoad'.dir[stem])]_vars

\* A run was stopped after it had inserted a full batch of a source of more
\* rows, and the table of the source is empty.
C22_Witness ==
  /\ lastLoad.status = "stopped"
  /\ LET last == lastLoad.inserts[Len(lastLoad.inserts)]
     IN  /\ last.calls = <<BATCH_SIZE>>
         /\ Len(lastLoad.dir[lastLoad.file]) > BATCH_SIZE + 1
         /\ last.table \in TableNames(db)
         /\ db.tables[last.table].rows = <<>>

\* C27: a load run that fails on an empty source or on a row length
\* mismatch leaves the tables, their rows and the ledger records of the
\* database as they were before the run.
C27_FailedRunChangesNothing ==
  [][(LoadRunStep /\ lastLoad'.status \in {"empty", "shape"})
     => /\ db'.tables = db.tables
        /\ db'.ledger = db.ledger]_vars

\* C28: no load run, whatever the names of its files, drops the ledger
\* table data_sources or puts a table of other columns in its place, and
\* the ledger records of the tables that the run does not load are after
\* the run what they were before.
C28_LedgerIsNoLoadTarget ==
  [][(LoadRunStep /\ db.hasLedger)
     => /\ db'.hasLedger
        /\ DataSources \notin TableNames(db')
        /\ \A k \in 1..Len(db.ledger) :
             db.ledger[k].table_name \notin TablesOf(lastLoad'.dir)
               => \E j \in 1..Len(db'.ledger) : db'.ledger[j] = db.ledger[k]]_vars

\* ------------------------------------------------------------------------
\* Properties of the functions called on their own
\* ------------------------------------------------------------------------

\* A suffix of language l ends the column.
SuffixMatch(column, l) ==
  \E suffix \in LANG_SUFFIX_MAP[l].suffixes : EndsWith(column, suffix)

\* The positions of arg that belong to group g: language g when g is the
\* first language with a suffix that ends the column, shared (0) when no
\* language has one.
GroupPositions(g) ==
  {p \in 1..Len(arg) :
     IF g = 0 THEN \A l \in Languages : ~SuffixMatch(arg[p], l)
     ELSE SuffixMatch(arg[p], g) /\ \A l \in 1..(g - 1) : ~SuffixMatch(arg[p], l)}

\* The group as the partitioner returned it.
GroupOut(g) == IF g = 0 THEN out.shared ELSE out.lang_columns[g]

\* group lists, in increasing order of position, the columns at the
\* positions of set.
ListsInOrder(group, set) ==
  /\ Len(group) = Cardinality(set)
  /\ \A k \in 1..Len(group) :
       \E p \in set : /\ group[k] = arg[p]
                      /\ Cardinality({q \in set : q < p}) = k - 1

\* C13: every position of the column list belongs to exactly one group;
\* each group returned lists exactly the columns of its positions, in their
\* original order; the groups together hold as many columns as the list.
C13_PartitionIsExactAndOrdered ==
  calls = 1 =>
    /\ \A p \in 1..Len(arg) :
         Cardinality({g \in {0} \cup Languages : p \in GroupPositions(g)}) = 1
    /\ \A g \in {0} \cup Languages : ListsInOrder(GroupOut(g), GroupPositions(g))
    /\ Len(out.shared) + Len(out.lang_columns[1]) + Len(out.lang_columns[2]) = Len(arg)
    /\ DOMAIN out.lang_columns = Languages

\* A list with two distinct English columns around a shared column.
C13_Witness ==
  /\ calls = 1
  /\ Len(arg) = 3
  /\ Len(out.lang_columns[1]) = 2
  /\ out.lang_columns[1][1] = arg[1]
  /\ out.lang_columns[1][2] = arg[3]
  /\ arg[1] # arg[3]
  /\ out.shared = <<arg[2]>>

\* C14: normalising a text that normalize_identifier returned gives the
\* same text, whatever the first argument was (a name that starts with a
\* digit and a name without valid character included).
C14_NormalizeIsIdempotent ==
  [][(calls >= 1 /\ calls' = calls + 1) => out' = out]_vars

\* The result of a name that starts with a digit was normalised again.
C14_Witness ==
  /\ calls = 2
  /\ arg # <<>>
  /\ arg[1] \in DigitChars
  /\ Len(out) > 1
  /\ out[1] = "_"
  /\ out[2] = arg[1]

\* The text has a character that is, or folds to, a letter or a digit.
HasValidChar(text) ==
  \E i \in 1..Len(text) :
    \E k \in 1..Len(AsciiFold(text[i])) : LowerOf(AsciiFold(text[i])[k]) \in IdentChars

\* C15: the result of normalize_identifier is not empty, holds only a-z,
\* 0-9 and the underscore, has no two underscores in a row and none at the
\* end, does not start with a digit, starts with an underscore only in
\* front of a digit, and is "field" when the argument has no valid
\* character.
C15_NormalizeFormat ==
  calls >= 1 =>
    /\ out # <<>>
    /\ \A i \in 1..Len(out) : out[i] \in IdentChars \cup {"_"}
    /\ \A i \in 1..(Len(out) - 1) : ~(out[i] = "_" /\ out[i + 1] = "_")
    /\ out[Len(out)] # "_"
    /\ out[1] \notin DigitChars
    /\ out[1] = "_" => (Len(out) > 1 /\ out[2] \in DigitChars)
    /\ ~HasValidChar(arg) => out = <<"f", "i", "e", "l", "d">>

\* A name of a digit, a blank and a capital was normalised.
C15_Witness ==
  /\ calls = 1
  /\ arg = <<"1", " ", "B">>
  /\ out = <<"_", "1", "_", "b">>

\* The text is one of the signs, or none, followed by one or more digits.
SignedDigits(text, signs) ==
  IF text # <<>> /\ Head(text) \in signs THEN AllDigits(Tail(text)) ELSE AllDigits(text)

\* The decimal text of the integer that a signed run of digits denotes: no
\* leading zero, no plus sign, no sign for zero.
DenotedText(text) ==
  LET digits == IF Head(text) \in {"+", "-"} THEN Tail(text) ELSE text
      kept   == LStrip(digits, {"0"})
  IN  IF kept = <<>> THEN <<"0">>
      ELSE (IF Head(text) = "-" THEN <<"-">> ELSE <<>>) \o kept

C17_FallThroughKeepsText ==
  LET trimmed == Strip(arg, SpaceChars) IN
  (/\ calls = 1
   /\ trimmed # <<>>
   /\ Lower(trimmed) \notin NullTokens
   /\ ~IsIntText(trimmed)
   /\ ~IsFloatText(trimmed))
    => out = PyStr(arg)

\* ------------------------------------------------------------------------
\* Properties of the metadata of the documents
\* ------------------------------------------------------------------------

\* The positions of the columns whose name ends with id.
IdPositions(columns) ==
  {k \in 1..Len(columns) : EndsWith(columns[k], <<"i", "d">>)}

\* The three lowest positions of a set of positions, or all if fewer.
FirstThree(positions) ==
  {k \in positions : Cardinality({j \in positions : j < k}) < 3}

\* The positions of the identifier values that a document of row i of table
\* t carries: of the first three identifier columns, those whose cell is not
\* null and not empty when trimmed.
AttachedPositions(t, i) ==
  {k \in FirstThree(IdPositions(db.tables[t].columns)) :
     /\ db.tables[t].rows[i][k] # None
     /\ Strip(db.tables[t].rows[i][k], SpaceChars) # <<>>}

\* C25: the identifier columns of a table are its columns whose name ends
\* with id, in column order; the metadata of every document sent holds
\* the table name, the language, the row identifier, the number of columns
\* of the table, and the trimmed value of each of the first three
\* identifier columns whose cell is not null and not empty, nothing else:
\* three identifier values at most.
C25_IdentifierMetadata ==
  IndexedOk =>
    \A t \in IndexedTables :
      LET columns == db.tables[t].columns
          idcols  == candidate_identifier_columns(columns)
      IN  /\ Len(idcols) = Cardinality(IdPositions(columns))
          /\ \A a \in 1..Len(idcols) :
               \E k \in IdPositions(columns) :
                 /\ columns[k] = idcols[a]
                 /\ Cardinality({j \in IdPositions(columns) : j < k}) = a - 1
          /\ \A i \in RowIds(t) : \A n \in SentFor(t, i) :
               LET metadata == Sent[n].metadata
               IN  /\ metadata.table_name = t
                   /\ metadata.language \in {En, Fr, Unknown}
                   /\ metadata.row_identifier = t \o <<":">> \o IntText(i)
                   /\ metadata.column_count = IntText(Len(columns))
                   /\ {metadata.identifiers[a] : a \in 1..Len(metadata.identifiers)}
                        = {<<columns[k], Strip(db.tables[t].rows[i][k], SpaceChars)>> :
                             k \in AttachedPositions(t, i)}
                   /\ Len(metadata.identifiers) = Cardinality(AttachedPositions(t, i))
                   /\ Len(metadata.identifiers) <= 3

\* A table of four identifier columns was indexed: one row gave a document
\* with the values of all of the first three, one a document with two of
\* them although its fourth has a value, one a document with none.
C25_Witness ==
  /\ IndexedOk
  /\ \E t \in IndexedTables :
       /\ Cardinality(IdPositions(db.tables[t].columns)) = 4
       /\ \E i \in RowIds(t) : \E n \in SentFor(t, i) :
            Len(Sent[n].metadata.identifiers) = 3
       /\ \E i \in RowIds(t) : \E n \in SentFor(t, i) :
            /\ Len(Sent[n].metadata.identifiers) = 2
            /\ db.tables[t].rows[i][5] # None
       /\ \E i \in RowIds(t) : \E n \in SentFor(t, i) :
            /\ Len(Sent[n].metadata.identifiers) = 0
            /\ db.tables[t].rows[i][5] # None

\* ------------------------------------------------------------------------
\* Properties of the order of an index run
\* ------------------------------------------------------------------------

\* The table of the entries of one upsert call (the calls of a run are
\* never empty).
BatchTable(batch) == batch[1].metadata.table_name

\* C26: a complete index run ingests the selected tables (the requested
\* ones, or every table but the ledger) one after another in ascending
\* order of their names, each once, however the request orders or repeats
\* the names; every upsert call carries documents of one table, and the
\* calls of a table come before the calls of the tables after it.
C26_TablesInLexicalOrder ==
  IndexedOk =>
    /\ IndexedTables = (IF lastIndex.requested = <<>>
                         THEN TableNames(db) \ {DataSources}
                         ELSE RequestedTables)
    /\ \A j, k \in 1..Len(lastIndex.tables) :
         j < k => TextLess(lastIndex.tables[j], lastIndex.tables[k])
    /\ Len(lastIndex.counts) = Len(lastIndex.tables)
    /\ \A b \in 1..Len(lastIndex.upserts) :
         /\ lastIndex.upserts[b] # <<>>
         /\ BatchTable(lastIndex.upserts[b]) \in IndexedTables
         /\ \A n \in 1..Len(lastIndex.upserts[b]) :
              lastIndex.upserts[b][n].metadata.table_name = BatchTable(lastIndex.upserts[b])
    /\ \A b, c \in 1..Len(lastIndex.upserts) :
         b < c => ~TextLess(BatchTable(lastIndex.upserts[c]), BatchTable(lastIndex.upserts[b]))

\* Tables b, a, b were requested; a was ingested, then b, with one upsert
\* call each.
C26_Witness ==
  /\ IndexedOk
  /\ lastIndex.requested = <<TableB, TableA, TableB>>
  /\ lastIndex.tables = <<TableA, TableB>>
  /\ Len(lastIndex.upserts) = 2
  /\ BatchTable(lastIndex.upserts[1]) = TableA
  /\ BatchTable(lastIndex.upserts[2]) = TableB

\* ------------------------------------------------------------------------
\* Properties of interrupted index runs
\* ------------------------------------------------------------------------

\* C21: a complete index run after an interrupted one, over the same
\* database and over the tables of the interrupted run at least, leaves the
\* collection that one uninterrupted run would have left on the collection
\* the interrupted run found: the same entries (id, text, metadata), each
\* once.
C21_ResumedRunEqualsUninterrupted ==
  [][(/\ IndexRunStep
      /\ lastIndex.status = "interrupted"
      /\ lastIndex'.status = "ok"
      /\ IndexedTables \subseteq {lastIndex'.tables[k] : k \in 1..Len(lastIndex'.tables)})
     => /\ \A whole \in {IndexMain(db, found, lastIndex'.requested,
                                   lastIndex.reset \/ lastIndex'.reset).collection} :
             EntrySet(collection') = EntrySet(whole)
        /\ Len(collection'.entries) = Cardinality(EntryIds(collection'.entries))]_vars

\* A run without reset over two tables was stopped after its first upsert
\* call, and a complete run without reset followed it.
C21_Witness ==
  /\ lastIndex.status = "ok"
  /\ ~lastIndex.reset
  /\ Len(lastIndex.upserts) = 2
  /\ found.exists
  /\ Len(found.entries) < Len(collection.entries)
  /\ Len(collection.entries) > VECTOR_BATCH_SIZE

\* ------------------------------------------------------------------------
\* Properties of the two stages together
\* ------------------------------------------------------------------------

\* C29: when the last run is a complete index run over all tables, the ids
\* of the entries of the collection are the ids of the documents that the
\* rows now in the database give, no more and no fewer.
C29_IndexMatchesStore ==
  (IndexedOk /\ lastIndex.requested = <<>>) =>
    \A fresh \in {IndexMain(db, NoCollection, <<>>, TRUE).collection} :
      EntryIds(collection.entries) = EntryIds(fresh.entries)

\* ------------------------------------------------------------------------
\* Properties of /assist
\* ------------------------------------------------------------------------

\* The component was called during the call that gave out.
Invoked(component) == \E k \in 1..Len(out.invoked) : out.invoked[k] = component

\* The validation of the submission of the call.
ValidationOf == validate(arg.request.submission, arg.repository, arg.schemas)

\* C30: a call for a service the repository does not know ends with 404;
\* a call whose validation is not valid for a known service returns the
\* validation with its issues, no search result and no outputs; in both
\* cases neither the search nor the assistant is called. The search is
\* called only after a valid validation, the assistant only after the
\* search.
C30_BadSubmissionNeverReachesModel ==
  calls = 1 =>
    /\ arg.request.submission.service_id \notin DOMAIN arg.repository
         => /\ out.status = 404
            /\ ~Invoked("search") /\ ~Invoked("generate")
    /\ (/\ arg.request.submission.service_id \in DOMAIN arg.repository
        /\ ~ValidationOf.is_valid)
         => /\ out.status = 200
            /\ out.validation = ValidationOf
            /\ \E k \in 1..Len(out.validation.issues) :
                 out.validation.issues[k].severity = "error"
            /\ out.search.results = <<>>
            /\ out.outputs = None
            /\ ~Invoked("search") /\ ~Invoked("generate")
    /\ Invoked("search")
         => /\ ValidationOf.is_valid
            /\ \A k \in 1..Len(ValidationOf.issues) :
                 ValidationOf.issues[k].severity # "error"
            /\ out.invoked[1] = "validate" /\ out.invoked[2] = "search"
    /\ Invoked("generate")
         => out.invoked = <<"validate", "search", "generate">>

\* A call for a known service was refused with two errors or more, and
\* nothing but the validator was called.
C30_Witness ==
  /\ calls = 1
  /\ arg.request.submission.service_id \in DOMAIN arg.repository
  /\ out.status = 200
  /\ ~out.validation.is_valid
  /\ Len(out.validation.issues) >= 2
  /\ out.invoked = <<"validate">>

====
